---- MODULE Spec2Model ----
(***************************************************************************)
(* The asynchronous block-I/O engine of StratoVirt (util/src/aio/mod.rs)   *)
(* and the file driver in front of it (block_backend/src/file.rs), as a    *)
(* state machine.  One engine instance, driven on its I/O thread by         *)
(* submit_request, flush_request and handle_complete.  The handlers are    *)
(* split into the steps of their loops (a program counter says where the   *)
(* running handler is), so that the states inside process_list and inside  *)
(* the reap loop are states of the model.                                  *)
(*                                                                         *)
(* A Cb is named by the number of the submit_request call that brought it: *)
(* Cb 1 is the first submitted, Cb 2 the second, ...                       *)
(***************************************************************************)
EXTENDS Integers, Sequences, FiniteSets, TLC

\* ------------------------------------------------------------------ bounds
\* Number of submit_request calls in one run.
MaxSubmit == 4
\* Aio.max_events (128 in Aio::new), scaled down.
max_events == 2

Ids == 1..MaxSubmit

\* ------------------------------------------------------------ data model
OpCode == {"Noop", "Preadv", "Pwritev", "Fdsync", "Discard", "WriteZeroes",
           "WriteZeroesUnmap"}
WriteZeroesState == {"Off", "On", "Unmap"}
AioEngine == {"Off", "Native", "IoUring"}

\* Alignments of the bounded inputs (powers of two, as the driver requires).
Aligns == {4}
\* File offsets of the bounded inputs.
Offsets == {0, 2}
\* Lengths of Discard / WriteZeroes requests of the bounded inputs.
Lengths == {8}

\* An Iovec with the bytes found at iov_base (guest memory is read by the
\* engine through the address).
Iov(base, bytes) == [iov_base |-> base, iov_len |-> Len(bytes), mem |-> bytes]

Zeros(n) == [i \in 1..n |-> 0]
Ones(n)  == [i \in 1..n |-> 1]

\* Buffer vectors of the bounded inputs: one aligned all-zero buffer of one
\* 64-bit word, one aligned non-zero buffer, two all-zero buffers whose
\* lengths are not multiples of 8, and one buffer at an odd address.
IovecInputs ==
    { << Iov(16, Zeros(8)) >>,
      << Iov(16, Ones(8)) >>,
      << Iov(16, Zeros(4)), Iov(32, Zeros(4)) >>,
      << Iov(18, Ones(8)) >> }

RECURSIVE get_iov_size(_)
get_iov_size(iovecs) ==
    IF iovecs = <<>> THEN 0
    ELSE Head(iovecs).iov_len + get_iov_size(Tail(iovecs))

\* BlockProperty of a file driver (direct, req_align, buf_align, discard,
\* write_zeroes).
BlockProperty ==
    [direct : BOOLEAN, req_align : Aligns, buf_align : Aligns,
     discard : BOOLEAN, write_zeroes : WriteZeroesState]

package_aiocb(prop, opcode, iovec, offset, nbytes) ==
    [direct |-> prop.direct, req_align |-> prop.req_align,
     buf_align |-> prop.buf_align, discard |-> prop.discard,
     write_zeroes |-> prop.write_zeroes, opcode |-> opcode,
     iovec |-> iovec, offset |-> offset, nbytes |-> nbytes]

read_vectored(prop, iovec, offset) ==
    package_aiocb(prop, "Preadv", iovec, offset, get_iov_size(iovec))
write_vectored(prop, iovec, offset) ==
    package_aiocb(prop, "Pwritev", iovec, offset, get_iov_size(iovec))
write_zeroes(prop, offset, nbytes, unmap) ==
    package_aiocb(prop, IF unmap THEN "WriteZeroesUnmap" ELSE "WriteZeroes",
                  <<>>, offset, nbytes)
discard(prop, offset, nbytes) ==
    package_aiocb(prop, "Discard", <<>>, offset, nbytes)
datasync(prop) ==
    package_aiocb(prop, "Fdsync", <<>>, 0, 0)

\* The Cbs submit_request is called with: those the file driver packages,
\* and Cbs without an opcode (Noop), which only a direct caller builds.
CbInputs ==
    UNION { { read_vectored(p, v, o) : v \in IovecInputs, o \in Offsets }
            \cup { write_vectored(p, v, o) : v \in IovecInputs, o \in Offsets }
            \cup { write_zeroes(p, o, n, u) :
                       o \in Offsets, n \in Lengths, u \in BOOLEAN }
            \cup { discard(p, o, n) : o \in Offsets, n \in Lengths }
            \cup { datasync(p) }
            \cup { package_aiocb(p, "Noop", <<>>, 0, 0) }
          : p \in BlockProperty }

\* x & (align - 1) != 0, for align a power of two.
MaskNonZero(x, align) == x % align # 0

RECURSIVE IovMisaligned(_, _)
IovMisaligned(iovec, cb) ==
    IF iovec = <<>> THEN FALSE
    ELSE \/ MaskNonZero(Head(iovec).iov_base, cb.buf_align)
         \/ MaskNonZero(Head(iovec).iov_len, cb.req_align)
         \/ IovMisaligned(Tail(iovec), cb)

request_misaligned(cb) ==
    /\ cb.direct
    /\ cb.opcode \in {"Preadv", "Pwritev"}
    /\ \/ MaskNonZero(cb.offset, cb.req_align)
       \/ IovMisaligned(cb.iovec, cb)

\* Variant that does not mind the length of a buffer.
RECURSIVE iovec_is_zero_any_len(_)
iovec_is_zero_any_len(iovecs) ==
    IF iovecs = <<>> THEN TRUE
    ELSE IF \E i \in 1..Head(iovecs).iov_len : Head(iovecs).mem[i] # 0 THEN FALSE
    ELSE iovec_is_zero_any_len(Tail(iovecs))

RECURSIVE iovec_is_zero(_)
iovec_is_zero(iovecs) ==
    IF iovecs = <<>> THEN TRUE
    ELSE LET iov == Head(iovecs) IN
         IF iov.iov_len % 8 # 0 THEN FALSE
         ELSE IF \E i \in 1..iov.iov_len : iov.mem[i] # 0 THEN FALSE
         ELSE iovec_is_zero(Tail(iovecs))

\* Variant that promotes a write without a look at its bytes.
PromotedOpcode_any_data(cb) ==
    IF cb.opcode = "Pwritev" /\ cb.write_zeroes # "Off"
    THEN IF cb.write_zeroes = "Unmap" /\ cb.discard
         THEN "WriteZeroesUnmap" ELSE "WriteZeroes"
    ELSE cb.opcode

\* The opcode submit_request dispatches on, after the zero-write promotion.
PromotedOpcode(cb) ==
    IF cb.opcode = "Pwritev" /\ cb.write_zeroes # "Off" /\ iovec_is_zero(cb.iovec)
    THEN IF cb.write_zeroes = "Unmap" /\ cb.discard
         THEN "WriteZeroesUnmap" ELSE "WriteZeroes"
    ELSE cb.opcode

\* ---------------------------------------------------------- linked list
\* List<T> of util::link_list: a sequence whose first element is the head.
add_head(l, x) == <<x>> \o l
add_tail(l, x) == Append(l, x)
pop_head(l) == Tail(l)
pop_tail(l) == SubSeq(l, 1, Len(l) - 1)
list_head(l) == l[1]
list_tail(l) == l[Len(l)]
unlink(l, x) == SelectSeq(l, LAMBDA y : y # x)

Range(s) == { s[i] : i \in 1..Len(s) }


\* ------------------------------------------------------------------ state
VARIABLES
    engine,          \* Aio.engine; ctx is Some exactly when it is not Off
    aio_in_queue,    \* pending Cbs, head first
    aio_in_flight,   \* Cbs handed to the backend, head first
    incomplete_cnt,  \* the atomic counter shared with the file driver
    heap,            \* the boxed nodes: Cb id -> its AioCb, or Null
    kernel,          \* backend: Cbs accepted whose event was not yet drained
    pc,              \* where the running handler is; "idle" between handlers
    caller,          \* who called process_list
    iocbs,           \* process_list: the batch
    fill,            \* process_list: iterations left of the fill loop
    nr,              \* process_list: number the backend accepted
    is_err,          \* process_list: the backend submit failed
    index,           \* process_list: push-back loop counter
    evts,            \* handle_complete: events drained, not yet handled
    done,            \* handle_complete: its result
    offered,         \* ctx.submit was called in the current (or last) handler
    node,            \* the node a handler holds outside the lists
    next_id,         \* number of the next submit_request call
    cb_cnt,          \* per Cb, how often complete_func was invoked for it
    path,            \* per Cb, the branch submit_request took for it
    pushed,          \* the Cbs not yet accepted by the backend that were
                     \* pushed back to the queue at least once
    last_cb,         \* the last complete_func call of the current (or last)
                     \* handler: Cb, result value, and what it returned
    ret,             \* what the last finished handler returned
    req,             \* the Cb of the current (or last) handler, if it is a
                     \* submit_request: opcode given, opcode dispatched on,
                     \* branch taken
    evt,             \* the last event handled by the current (or last) handler
    \* The synchronous branches of submit_request, byte for byte (SpecSync):
    aiocb,           \* the AioCb of the submit_request call, or NoCb
    file,            \* the bytes of the file behind file_fd
    mem,             \* the guest memory the iovecs point into
    bounce_buffer,   \* the bounce buffer, <<>> when not allocated
    win_offset,      \* handle_misaligned_rw: offset
    iov_rest,        \* handle_misaligned_rw: iovecs
    need_tail,       \* handle_misaligned_rw: need_tail
    rw_res,          \* submit_request: res, the value for the callback
    raw_log,         \* the raw reads and writes of the bounce path so far
    wrote,           \* the write Cb that a read-back follows, or NoCb
    \* AioCb::req_is_completed on Cbs that share a combine record
    \* (SpecCombine):
    combine_cnt,     \* combine_req.0, the AtomicU32 of Cbs not yet completed
    combine_res,     \* combine_req.1, the AtomicI64 with the first error
    call,            \* per Cb of the group, the req_is_completed call on it:
                     \* its argument, where it is, what it returned
    published,       \* the negative results in the order of their
                     \* compare_exchange
    \* FileIoHandler and FileDriver::drain_request (SpecHandler):
    broken,          \* FileIoHandler.broken, the atomic flag
    handler,         \* the notifier callback that is running, or "none"
    reap_res,        \* what aio_complete_handler returned to the running
                     \* (or last) callback, if it was called
    error_cb_cnt,    \* how often error_cb ran in the running (or last)
                     \* callback
    notify,          \* the last return of a notifier callback
    drain,           \* drain_request on another thread: where it is and
                     \* the value of its last load of incomplete
    \* iovecs_split (SpecSplit):
    split            \* the arguments of a call and, once made, its result

vars == << engine, aio_in_queue, aio_in_flight, incomplete_cnt, heap, kernel,
           pc, caller, iocbs, fill, nr, is_err, index, evts, done, offered,
           node, next_id, cb_cnt, path, pushed, last_cb, ret, req, evt,
           aiocb, file, mem, bounce_buffer, win_offset, iov_rest, need_tail,
           rw_res, raw_log, wrote, combine_cnt, combine_res, call,
           published, broken, handler, reap_res, error_cb_cnt, notify,
           drain, split >>

\* The arguments and the result of the free functions on iovecs.
purevars == << split >>

\* The notifier callbacks of the file driver and its drain_request.
handlervars == << broken, handler, reap_res, error_cb_cnt, notify, drain >>

\* The combine record of a group of Cbs and the calls of req_is_completed.
combvars == << combine_cnt, combine_res, call, published >>

\* What the asynchronous engine never touches.
syncvars == << aiocb, file, mem, bounce_buffer, win_offset, iov_rest,
               need_tail, rw_res, raw_log, wrote, combvars, handlervars,
               purevars >>

Null == [nbytes |-> -1]
NoCall == [id |-> 0, res |-> 0, ok |-> TRUE]
NoRet == [op |-> "none", id |-> 0, ok |-> TRUE, done |-> FALSE]
NoReq == [opcode |-> "none", op |-> "none", branch |-> "none"]
NoEvt == [user_data |-> 0, status |-> 0, res |-> 0]
NoCb == [opcode |-> "none"]

\* Variant in which every engine has a ctx.
ctx_is_some_always == TRUE
\* self.ctx.is_some(): Aio::new makes a ctx for Native and IoUring only.
ctx_is_some == engine # "Off"

\* Aio::new: empty lists, the counter at 0, a ctx unless the engine is Off.
EngineInit ==
    /\ engine \in AioEngine
    /\ aio_in_queue = <<>>
    /\ aio_in_flight = <<>>
    /\ incomplete_cnt = 0
    /\ heap = [i \in Ids |-> Null]
    /\ kernel = {}
    /\ pc = "idle"
    /\ caller = "none"
    /\ iocbs = <<>>
    /\ fill = 0
    /\ nr = 0
    /\ is_err = FALSE
    /\ index = 0
    /\ evts = <<>>
    /\ done = FALSE
    /\ offered = FALSE
    /\ node = 0
    /\ next_id = 1
    /\ cb_cnt = [i \in Ids |-> 0]
    /\ path = [i \in Ids |-> "none"]
    /\ pushed = {}
    /\ last_cb = NoCall
    /\ ret = NoRet
    /\ req = NoReq
    /\ evt = NoEvt

\* No file contents are followed.
NoSync ==
    /\ aiocb = NoCb
    /\ file = <<>>
    /\ mem = <<>>
    /\ bounce_buffer = <<>>
    /\ win_offset = 0
    /\ iov_rest = <<>>
    /\ need_tail = FALSE
    /\ rw_res = 0
    /\ raw_log = <<>>
    /\ wrote = NoCb

\* No Cb carries a combine record.
NoCombine ==
    /\ combine_cnt = 0
    /\ combine_res = 0
    /\ call = <<>>
    /\ published = <<>>

\* aio_complete_handler was not called.
NotCalled == [called |-> FALSE, ok |-> TRUE, done |-> FALSE]
\* No notifier callback has returned.
NoNotify == [kind |-> "none", value |-> "none", broken |-> FALSE,
             observed |-> FALSE]
\* drain_request is not running.
NoDrain == [at |-> "idle", seen |-> -1]

\* No notifier callback runs and none has run.
NoHandler ==
    /\ handler = "none"
    /\ reap_res = NotCalled
    /\ error_cb_cnt = 0
    /\ notify = NoNotify
    /\ drain = NoDrain

\* No call of iovecs_split.
NoSplit == [called |-> FALSE]

\* No notifier callbacks are registered: the flag plays no part; and no
\* free function is called.
Unregistered ==
    /\ broken = FALSE
    /\ NoHandler
    /\ split = NoSplit

Init ==
    /\ EngineInit
    /\ NoSync
    /\ NoCombine
    /\ Unregistered

\* (self.complete_func)(cb, res): the caller's callback runs once more for
\* Cb id; whether it returns Ok or Err is the caller's business.
complete_func(id, res, ok) ==
    /\ cb_cnt' = [cb_cnt EXCEPT ![id] = @ + 1]
    /\ last_cb' = [id |-> id, res |-> res, ok |-> ok]

\* A handler returns to the event loop.
Return(op, id, ok, dn) ==
    /\ pc' = "idle"
    /\ ret' = [op |-> op, id |-> id, ok |-> ok, done |-> dn]
    /\ caller' = "none"
    /\ iocbs' = <<>>
    /\ fill' = 0
    /\ nr' = 0
    /\ is_err' = FALSE
    /\ index' = 0
    /\ evts' = <<>>
    /\ done' = FALSE
    /\ node' = 0

\* Variant in which rw_async drops the result of process_list.
ProcessListReturns_swallowed(ok) ==
    CASE caller = "submit_request" ->
             Return("submit_request", next_id - 1, TRUE, FALSE)
      [] caller = "flush_request" ->
             Return("flush_request", 0, ok, FALSE)
      [] caller = "handle_complete" ->
             Return("handle_complete", 0, ok, ok /\ done)

\* process_list returns to the handler that called it, which returns its
\* result (handle_complete: Ok(done) after a successful refill).
ProcessListReturns(ok) ==
    CASE caller = "submit_request" ->
             Return("submit_request", next_id - 1, ok, FALSE)
      [] caller = "flush_request" ->
             Return("flush_request", 0, ok, FALSE)
      [] caller = "handle_complete" ->
             Return("handle_complete", 0, ok, ok /\ done)

queues == << aio_in_queue, aio_in_flight, incomplete_cnt, heap, kernel >>
locals == << caller, iocbs, fill, nr, is_err, index, evts, done, node >>
history == << cb_cnt, path, pushed, last_cb >>

\* incomplete_cnt.fetch_add(1, SeqCst) and fetch_sub(1, SeqCst).  The counter
\* is an AtomicU64; in the runs of the model it never leaves 0..MaxSubmit.
\* Variants with a lost update, against which the claims are tried.
fetch_add_lost(cnt) == cnt
fetch_sub_lost(cnt) == cnt
fetch_add(cnt) == cnt + 1
fetch_sub(cnt) == cnt - 1

\* ---------------------------------------------------------- submit_request
\* Results of the raw primitives (raw.rs): a byte count, 0, or an error.
RawRw(cb) == {-1, cb.nbytes} \cup (IF cb.nbytes > 0 THEN {cb.nbytes - 1} ELSE {})
RawStatus == {0, -1}

\* Variant that hands a short count on to the callback.
rw_sync_short_count(cb, raw) == raw
\* rw_sync: what the callback gets for the result of the raw call.
rw_sync(cb, raw) ==
    IF raw < 0 THEN raw ELSE IF raw # cb.nbytes THEN -1 ELSE raw

\* Variant that reports the discard of a WriteZeroesUnmap, whatever it
\* returned.
write_zeroes_sync_no_fallback(opcode, raw_d, raw_wz) ==
    IF opcode = "WriteZeroesUnmap" THEN raw_d ELSE raw_wz

\* write_zeroes_sync: what the callback gets for the results of raw_discard
\* and raw_write_zeroes.
write_zeroes_sync(opcode, raw_d, raw_wz) ==
    IF opcode = "WriteZeroesUnmap" /\ raw_d = 0 THEN 0 ELSE raw_wz

\* Variant that queues the zeroing and discarding requests when there is a
\* ctx, as it does reads and writes.
Dispatch_zeroes_async(cb, has_ctx) ==
    IF request_misaligned(cb) THEN "bounce"
    ELSE LET op == PromotedOpcode(cb) IN
         CASE op = "Fdsync" -> IF has_ctx THEN "flush_async" ELSE "flush_sync"
           [] op = "Noop" -> "noop"
           [] op = "Discard" -> IF has_ctx THEN "rw_async" ELSE "discard_sync"
           [] op \in {"WriteZeroes", "WriteZeroesUnmap"} ->
                  IF has_ctx THEN "rw_async" ELSE "write_zeroes_sync"
           [] OTHER -> IF has_ctx THEN "rw_async" ELSE "rw_sync"

\* Variant that lets a Cb without opcode fall into the discard branch.
Dispatch_noop_discards(cb, has_ctx) ==
    IF request_misaligned(cb) THEN "bounce"
    ELSE LET op == PromotedOpcode(cb) IN
         CASE op \in {"Preadv", "Pwritev"} ->
                  IF has_ctx THEN "rw_async" ELSE "rw_sync"
           [] op = "Fdsync" ->
                  IF has_ctx THEN "flush_async" ELSE "flush_sync"
           [] op \in {"WriteZeroes", "WriteZeroesUnmap"} -> "write_zeroes_sync"
           [] OTHER -> "discard_sync"

\* Variant that promotes a zero write before it looks at the alignment.
Dispatch_promotes_first(cb, has_ctx) ==
    LET op == PromotedOpcode(cb) IN
    IF op \in {"Preadv", "Pwritev"} /\ request_misaligned(cb) THEN "bounce"
    ELSE CASE op \in {"Preadv", "Pwritev"} ->
                  IF has_ctx THEN "rw_async" ELSE "rw_sync"
           [] op = "Fdsync" ->
                  IF has_ctx THEN "flush_async" ELSE "flush_sync"
           [] op = "Discard" -> "discard_sync"
           [] op \in {"WriteZeroes", "WriteZeroesUnmap"} -> "write_zeroes_sync"
           [] op = "Noop" -> "noop"

\* The branch submit_request takes for a Cb, with or without a ctx.
Dispatch(cb, has_ctx) ==
    IF request_misaligned(cb) THEN "bounce"
    ELSE LET op == PromotedOpcode(cb) IN
         CASE op \in {"Preadv", "Pwritev"} ->
                  IF has_ctx THEN "rw_async" ELSE "rw_sync"
           [] op = "Fdsync" ->
                  IF has_ctx THEN "flush_async" ELSE "flush_sync"
           [] op = "Discard" -> "discard_sync"
           [] op \in {"WriteZeroes", "WriteZeroesUnmap"} -> "write_zeroes_sync"
           [] op = "Noop" -> "noop"

\* The values a synchronous branch may hand to the callback for a Cb: -1 if
\* the bounce buffer cannot be allocated or handle_misaligned_rw fails and 0
\* if it succeeds; else what the raw primitive returned, as the branch
\* reports it.
SyncResults(cb, has_ctx) ==
    LET d == Dispatch(cb, has_ctx) IN
    CASE d = "bounce" -> {-1, 0}
      [] d = "rw_sync" -> { rw_sync(cb, raw) : raw \in RawRw(cb) }
      [] d = "flush_sync" -> RawStatus
      [] d = "discard_sync" -> RawStatus
      [] d = "write_zeroes_sync" ->
             { write_zeroes_sync(PromotedOpcode(cb), raw_d, raw_wz) :
                   raw_d \in RawStatus, raw_wz \in RawStatus }
      [] OTHER -> {}

SyncValues(has_ctx) == UNION { SyncResults(cb, has_ctx) : cb \in CbInputs }
SyncValuesCtx == SyncValues(TRUE)
SyncValuesNoCtx == SyncValues(FALSE)
NoopInputs == { cb \in CbInputs : Dispatch(cb, TRUE) = "noop" }
AsyncInputs == { cb \in CbInputs : Dispatch(cb, TRUE) \in {"rw_async", "flush_async"} }
AsyncNbytes == { cb.nbytes : cb \in AsyncInputs }

\* What submit_request does with a Cb, as far as the engine state goes: the
\* opcode of the Cb, the opcode dispatched on (after the promotion, which
\* the bounce path does not reach) and the branch.
Request(cb, has_ctx) ==
    [opcode |-> cb.opcode,
     op |-> IF request_misaligned(cb) THEN cb.opcode ELSE PromotedOpcode(cb),
     branch |-> Dispatch(cb, has_ctx)]

\* The synchronous calls: the request and the value handed to the callback.
SyncCalls(has_ctx) ==
    UNION { { [req |-> Request(cb, has_ctx), res |-> v] :
                  v \in SyncResults(cb, has_ctx) } : cb \in CbInputs }
SyncCallsCtx == SyncCalls(TRUE)
SyncCallsNoCtx == SyncCalls(FALSE)
\* The asynchronous calls: the request and the nbytes of the Cb.
AsyncCalls ==
    { [req |-> Request(cb, TRUE), nbytes |-> cb.nbytes] : cb \in AsyncInputs }
NoopCalls == { Request(cb, TRUE) : cb \in NoopInputs }

\* submit_request of a Cb that is completed before the call returns: the
\* bounce path, rw_sync, flush_sync, discard_sync and write_zeroes_sync.
\* The call returns what the callback returned.
SubmitSync ==
    /\ pc = "idle" /\ next_id <= MaxSubmit
    /\ \E c \in (IF ctx_is_some THEN SyncCallsCtx ELSE SyncCallsNoCtx),
          ok \in BOOLEAN :
          /\ c.res \in (IF ctx_is_some THEN SyncValuesCtx ELSE SyncValuesNoCtx)
          /\ req' = c.req
          /\ complete_func(next_id, c.res, ok)
          /\ Return("submit_request", next_id, ok, FALSE)
    /\ path' = [path EXCEPT ![next_id] = "sync"]
    /\ offered' = FALSE
    /\ next_id' = next_id + 1
    /\ UNCHANGED << engine, queues, pushed >>
    /\ evt' = NoEvt
    /\ UNCHANGED syncvars

\* submit_request of a Cb whose opcode is Noop.
SubmitNoop ==
    /\ pc = "idle" /\ next_id <= MaxSubmit
    /\ \E r \in NoopCalls : req' = r
    /\ Return("submit_request", next_id, FALSE, FALSE)
    /\ path' = [path EXCEPT ![next_id] = "rejected"]
    /\ last_cb' = NoCall
    /\ offered' = FALSE
    /\ next_id' = next_id + 1
    /\ UNCHANGED << engine, queues, cb_cnt, pushed >>
    /\ evt' = NoEvt
    /\ UNCHANGED syncvars

\* The test of rw_async after the insertion: the queue and the in-flight
\* list together hold max_events Cbs.
\* Variant that waits for one Cb more.
list_is_full_strict(queue, flight) == Len(queue) + Len(flight) > max_events
list_is_full(queue, flight) == Len(queue) + Len(flight) >= max_events

\* rw_async (and flush_async): box the Cb, put it at the head of the queue,
\* count it, and process the list once max_events Cbs are incomplete.
rw_async ==
    /\ pc = "idle" /\ next_id <= MaxSubmit
    /\ ctx_is_some
    /\ \E c \in AsyncCalls :
          /\ c.nbytes \in AsyncNbytes
          /\ req' = c.req
          /\ heap' = [heap EXCEPT ![next_id] = [nbytes |-> c.nbytes]]
    /\ aio_in_queue' = add_head(aio_in_queue, next_id)
    /\ incomplete_cnt' = fetch_add(incomplete_cnt)
    /\ path' = [path EXCEPT ![next_id] = "async"]
    /\ next_id' = next_id + 1
    /\ IF list_is_full(aio_in_queue', aio_in_flight)
       THEN /\ pc' = "process_list"
            /\ caller' = "submit_request"
            /\ ret' = NoRet
            /\ UNCHANGED << iocbs, fill, nr, is_err, index, evts, done, node >>
       ELSE Return("submit_request", next_id, TRUE, FALSE)
    /\ last_cb' = NoCall
    /\ offered' = FALSE
    /\ UNCHANGED << engine, aio_in_flight, kernel, cb_cnt, pushed >>
    /\ evt' = NoEvt
    /\ UNCHANGED syncvars

\* ----------------------------------------------------------- flush_request
flush_request ==
    /\ pc = "idle"
    /\ IF ctx_is_some
       THEN /\ pc' = "process_list"
            /\ caller' = "flush_request"
            /\ ret' = NoRet
            /\ UNCHANGED << iocbs, fill, nr, is_err, index, evts, done, node >>
       ELSE Return("flush_request", 0, TRUE, FALSE)
    /\ last_cb' = NoCall
    /\ offered' = FALSE
    /\ UNCHANGED << engine, queues, cb_cnt, path, pushed, next_id >>
    /\ req' = NoReq
    /\ evt' = NoEvt
    /\ UNCHANGED syncvars


\* ------------------------------------------------------------ process_list
\* The number of iterations of "for _ in self.aio_in_flight.len..self.max_events".
\* Variant that forgets what is in flight.
BatchRoom_ignores_inflight == max_events
BatchRoom == max_events - Len(aio_in_flight)

\* The push-back of one unsubmitted request: aio_in_flight.pop_head() goes to
\* aio_in_queue.add_tail().  The pair of the new queue and the new in-flight
\* list.
\* Variant that returns the request to the head of the queue.
PushBackOne_at_head(queue, flight) ==
    << add_head(queue, list_head(flight)), pop_head(flight) >>
PushBackOne(queue, flight) ==
    << add_tail(queue, list_head(flight)), pop_head(flight) >>

\* "Fail one request": aio_in_queue.pop_tail().  The pair of the node popped
\* and the new queue.
\* Variants that fail the newest request, and that leave the failed request
\* in the queue.
FailOnePop_head(queue) == << list_head(queue), pop_head(queue) >>
FailOnePop_keeps(queue) == << list_tail(queue), queue >>
FailOnePop(queue) == << list_tail(queue), pop_tail(queue) >>

\* The loop head: leave when there is no ctx, nothing is queued or the
\* backend is full; otherwise start a batch.
process_list ==
    /\ pc = "process_list"
    /\ IF ctx_is_some /\ Len(aio_in_queue) > 0 /\ Len(aio_in_flight) < max_events
       THEN /\ pc' = "fill"
            /\ iocbs' = <<>>
            /\ fill' = BatchRoom
            /\ UNCHANGED << ret, caller, nr, is_err, index, evts, done, node >>
       ELSE ProcessListReturns(TRUE)
    /\ UNCHANGED << engine, queues, history, offered, next_id >>
    /\ UNCHANGED << req, evt >>
    /\ UNCHANGED syncvars

\* One iteration of "for _ in aio_in_flight.len..max_events": the tail of
\* the queue goes to the end of the batch and to the head of aio_in_flight.
FillBatch ==
    /\ pc = "fill"
    /\ LET n == list_tail(aio_in_queue) IN
          /\ aio_in_queue' = pop_tail(aio_in_queue)
          /\ iocbs' = Append(iocbs, n)
          /\ aio_in_flight' = add_head(aio_in_flight, n)
    /\ fill' = fill - 1
    /\ pc' = IF fill' = 0 \/ aio_in_queue' = <<>> THEN "submit" ELSE "fill"
    /\ UNCHANGED << engine, incomplete_cnt, heap, kernel, caller, nr, is_err,
                    index, evts, done, node, history, offered, next_id, ret >>
    /\ UNCHANGED << req, evt >>
    /\ UNCHANGED syncvars

\* ctx.submit(&iocbs): the backend takes the first n Cbs of the batch, for
\* some n from 0 to the batch length, or fails and takes none.
SubmitBatch ==
    /\ pc = "submit"
    /\ \/ \E n \in 0..Len(iocbs) :
             /\ nr' = n
             /\ is_err' = FALSE
             /\ kernel' = kernel \cup { iocbs[i] : i \in 1..n }
             /\ pushed' = pushed \ { iocbs[i] : i \in 1..n }
       \/ /\ nr' = 0
          /\ is_err' = TRUE
          /\ UNCHANGED << kernel, pushed >>
    /\ index' = nr'
    /\ offered' = TRUE
    /\ pc' = "push_back"
    /\ UNCHANGED << engine, aio_in_queue, aio_in_flight, incomplete_cnt, heap,
                    caller, iocbs, fill, evts, done, node, cb_cnt, path, last_cb,
                    next_id, ret >>
    /\ UNCHANGED << req, evt >>
    /\ UNCHANGED syncvars

\* One iteration of the push-back loop: the head of aio_in_flight returns
\* to the tail of the queue.
PushBack ==
    /\ pc = "push_back"
    /\ index < Len(iocbs)
    /\ IF aio_in_flight # <<>>
       THEN /\ aio_in_queue' = PushBackOne(aio_in_queue, aio_in_flight)[1]
            /\ aio_in_flight' = PushBackOne(aio_in_queue, aio_in_flight)[2]
            /\ pushed' = pushed \cup {list_head(aio_in_flight)}
       ELSE UNCHANGED << aio_in_queue, aio_in_flight, pushed >>
    /\ index' = index + 1
    /\ UNCHANGED << engine, incomplete_cnt, heap, kernel, pc, caller, iocbs,
                    fill, nr, is_err, evts, done, node, cb_cnt, path, last_cb,
                    offered, next_id, ret >>
    /\ UNCHANGED << req, evt >>
    /\ UNCHANGED syncvars

\* After the push-back loop: on error fail one request, on zero acceptance
\* break, otherwise go round the loop.
AfterSubmit ==
    /\ pc = "push_back"
    /\ index >= Len(iocbs)
    /\ IF is_err
       THEN /\ IF aio_in_queue # <<>>
               THEN /\ node' = FailOnePop(aio_in_queue)[1]
                    /\ aio_in_queue' = FailOnePop(aio_in_queue)[2]
                    /\ incomplete_cnt' = fetch_sub(incomplete_cnt)
                    /\ pc' = "fail_cb"
               ELSE /\ pc' = "process_list"
                    /\ UNCHANGED << node, aio_in_queue, incomplete_cnt >>
            /\ UNCHANGED << ret, caller, iocbs, fill, nr, is_err, index, evts,
                            done >>
       ELSE /\ IF nr = 0
               THEN ProcessListReturns(TRUE)
               ELSE /\ pc' = "process_list"
                    /\ UNCHANGED << ret, caller, iocbs, fill, nr, is_err, index,
                                    evts, done, node >>
            /\ UNCHANGED << aio_in_queue, incomplete_cnt >>
    /\ UNCHANGED << engine, aio_in_flight, heap, kernel, history, offered,
                    next_id >>
    /\ UNCHANGED << req, evt >>
    /\ UNCHANGED syncvars

\* Variant that goes on with the loop whatever the callback returned.
FailOne_ignores_error ==
    /\ pc = "fail_cb"
    /\ heap' = [heap EXCEPT ![node] = Null]
    /\ pushed' = pushed \ {node}
    /\ \E ok \in BOOLEAN : complete_func(node, -1, ok)
    /\ pc' = "process_list"
    /\ node' = 0
    /\ UNCHANGED << engine, aio_in_queue, aio_in_flight, incomplete_cnt,
                    kernel, path, offered, next_id, ret, caller, iocbs, fill,
                    nr, is_err, index, evts, done >>
    /\ UNCHANGED << req, evt >>
    /\ UNCHANGED syncvars

\* (self.complete_func)(&node.value, -1)?: the failed request is completed
\* and its node dropped; an error of the callback leaves process_list.
FailOne ==
    /\ pc = "fail_cb"
    /\ heap' = [heap EXCEPT ![node] = Null]
    /\ pushed' = pushed \ {node}
    /\ \E ok \in BOOLEAN :
          /\ complete_func(node, -1, ok)
          /\ IF ok
             THEN /\ pc' = "process_list"
                  /\ node' = 0
                  /\ UNCHANGED << ret, caller, iocbs, fill, nr, is_err, index,
                                  evts, done >>
             ELSE ProcessListReturns(FALSE)
    /\ UNCHANGED << engine, aio_in_queue, aio_in_flight, incomplete_cnt,
                    kernel, path, offered, next_id >>
    /\ UNCHANGED << req, evt >>
    /\ UNCHANGED syncvars

\* --------------------------------------------------------- handle_complete
\* The events the backend may report for Cb id: success, an error status,
\* a short and an excess byte count.
EventsOf(id) ==
    LET nb == heap[id].nbytes IN
    { [user_data |-> id, status |-> 0, res |-> nb],
      [user_data |-> id, status |-> -5, res |-> nb],
      [user_data |-> id, status |-> 0, res |-> nb - 1],
      [user_data |-> id, status |-> 0, res |-> nb + 1] }

\* get_events(): the ready completions, in the order the backend lists
\* them, as the sequence of their user_data; each accepted Cb has at most
\* one event.  The status and byte count of an event are the backend's
\* data, which nothing reads before the reap loop comes to the event: they
\* are drawn there (ReapEvent).
RECURSIVE get_events(_)
get_events(S) ==
    {<<>>} \cup UNION { { <<id>> \o t : t \in get_events(S \ {id}) } : id \in S }

\* Variant that looks at the status only.
EventResult_status_only(e) ==
    IF e.status = 0 THEN e.res ELSE -1

\* The result handed to the callback for an event.
EventResult(e) ==
    IF e.status = 0 /\ e.res = heap[e.user_data].nbytes THEN e.res ELSE -1

handle_complete ==
    /\ pc = "idle"
    /\ IF ~ctx_is_some
       THEN /\ Return("handle_complete", 0, TRUE, FALSE)
            /\ kernel' = kernel
       ELSE /\ \E es \in get_events(kernel) :
                  /\ evts' = es
                  /\ kernel' = kernel \ Range(es)
            /\ done' = FALSE
            /\ pc' = "reap"
            /\ ret' = NoRet
            /\ UNCHANGED << caller, iocbs, fill, nr, is_err, index, node >>
    /\ last_cb' = NoCall
    /\ offered' = FALSE
    /\ UNCHANGED << engine, aio_in_flight, aio_in_queue, incomplete_cnt, heap,
                    cb_cnt, path, pushed, next_id >>
    /\ req' = NoReq
    /\ evt' = NoEvt
    /\ UNCHANGED syncvars

\* The loop body up to the callback: the result is computed from the event
\* and the callback invoked.
ReapEvent ==
    /\ pc = "reap"
    /\ evts # <<>>
    /\ \E e \in EventsOf(Head(evts)), ok \in BOOLEAN :
          /\ evt' = e
          /\ node' = e.user_data
          /\ done' = (done \/ (e.status = 0 /\ e.res = heap[node'].nbytes))
          /\ complete_func(node', EventResult(e), ok)
    /\ pc' = "unlink"
    /\ UNCHANGED << engine, queues, caller, iocbs, fill, nr, is_err, index,
                    evts, path, pushed, offered, next_id, ret >>
    /\ UNCHANGED req
    /\ UNCHANGED syncvars

\* The rest of the loop body: unlink, count down, free the node, and leave
\* with the error if the callback returned one.
UnlinkEvent ==
    /\ pc = "unlink"
    /\ aio_in_flight' = unlink(aio_in_flight, node)
    /\ incomplete_cnt' = fetch_sub(incomplete_cnt)
    /\ heap' = [heap EXCEPT ![node] = Null]
    /\ IF last_cb.ok
       THEN /\ evts' = Tail(evts)
            /\ pc' = "reap"
            /\ node' = 0
            /\ UNCHANGED << ret, caller, iocbs, fill, nr, is_err, index, done >>
       ELSE Return("handle_complete", 0, FALSE, FALSE)
    /\ UNCHANGED << engine, aio_in_queue, kernel, history, offered, next_id >>
    /\ UNCHANGED << req, evt >>
    /\ UNCHANGED syncvars

\* Variant that returns after the events without a look at the queue.
Refill_skipped ==
    /\ pc = "reap"
    /\ evts = <<>>
    /\ Return("handle_complete", 0, TRUE, done)
    /\ UNCHANGED << engine, queues, history, offered, next_id >>
    /\ UNCHANGED << req, evt >>
    /\ UNCHANGED syncvars

\* After the events: self.process_list()?
Refill ==
    /\ pc = "reap"
    /\ evts = <<>>
    /\ pc' = "process_list"
    /\ caller' = "handle_complete"
    /\ UNCHANGED << engine, queues, iocbs, fill, nr, is_err, index, evts, done,
                    node, history, offered, next_id, ret >>
    /\ UNCHANGED << req, evt >>
    /\ UNCHANGED syncvars

\* ------------------------------------------------------------ specification
Next ==
    \/ SubmitSync
    \/ SubmitNoop
    \/ rw_async
    \/ flush_request
    \/ handle_complete
    \/ ReapEvent
    \/ UnlinkEvent
    \/ Refill
    \/ process_list
    \/ FillBatch
    \/ SubmitBatch
    \/ PushBack
    \/ AfterSubmit
    \/ FailOne

Spec == Init /\ [][Next]_vars


\* ================================================================== claims
Queued == { id \in Ids : path[id] = "async" }
Accepted == { id \in Ids : path[id] \in {"sync", "async"} }
InLists(id) == id \in Range(aio_in_queue) \cup Range(aio_in_flight)
Idle == pc = "idle"

\* C1: the completion callback is never invoked twice for a Cb, and between
\* handlers it has been invoked once for every accepted Cb that is neither
\* in the queue nor in flight.
C1_CallbackExactlyOnce ==
    \A id \in Ids :
        /\ cb_cnt[id] <= 1
        /\ (Idle /\ id \in Accepted /\ ~InLists(id)) => cb_cnt[id] = 1

\* A Cb that was queued has left the lists with its callback invoked, after
\* a handler that returned an error, while another Cb is still in a list.
C1_Witness ==
    /\ Idle
    /\ ~ret.ok
    /\ \E id \in Queued : ~InLists(id) /\ cb_cnt[id] = 1
    /\ \E id \in Queued : InLists(id)

\* C2: between handlers, incomplete_cnt is the number of Cbs in the queue
\* plus the number of Cbs in flight.
C2_CountIsQueuePlusFlight ==
    Idle => incomplete_cnt = Len(aio_in_queue) + Len(aio_in_flight)

\* A handler returned an error with Cbs in both lists and one Cb completed.
C2_Witness ==
    /\ Idle
    /\ ~ret.ok
    /\ aio_in_queue # <<>>
    /\ aio_in_flight # <<>>
    /\ \E id \in Queued : ~InLists(id)

\* C3: in every state, also inside process_list, at most max_events Cbs are
\* in flight.
C3_InflightBounded == Len(aio_in_flight) <= max_events

\* A batch smaller than max_events has filled the in-flight list while the
\* queue still holds a Cb.
C3_Witness ==
    /\ pc = "submit"
    /\ Len(aio_in_flight) = max_events
    /\ Len(iocbs) < max_events
    /\ aio_in_queue # <<>>

\* C5: between handlers, incomplete_cnt is 0 if and only if every accepted
\* Cb has had exactly one completion callback.
C5_ZeroIffAllCompleted ==
    Idle => (incomplete_cnt = 0 <=> \A id \in Accepted : cb_cnt[id] = 1)

\* More Cbs than max_events were queued and all of them are completed.
C5_Witness ==
    /\ Idle
    /\ incomplete_cnt = 0
    /\ Cardinality(Queued) > max_events
    /\ \A id \in Queued : cb_cnt[id] = 1

\* C7: every batch passed to the backend submit lists its Cbs oldest first.
C7_BatchInArrivalOrder ==
    pc = "submit" => \A i, j \in 1..Len(iocbs) : i < j => iocbs[i] < iocbs[j]

\* A batch of a Cb that was pushed back before, followed by a Cb that is
\* offered for the first time.
C7_Witness ==
    /\ pc = "submit"
    /\ Len(iocbs) >= 2
    /\ iocbs[1] \in pushed
    /\ iocbs[2] \notin pushed


\* C6 as claimed: when submit_request returns an error for a Cb, the callback
\* of that Cb was not invoked.
C6_ErrorMeansNoCallback ==
    (Idle /\ ret.op = "submit_request" /\ ~ret.ok) => cb_cnt[ret.id] = 0

\* C6, amended: the callback of a rejected (Noop) Cb is never invoked;
\* submit_request returns an error exactly when the Cb is rejected or a
\* callback invoked during the call returned an error, which on the
\* synchronous branches is the Cb's own callback; and when it returns
\* success the callback of the Cb has been invoked once or the Cb is in the
\* queue or in flight.
C6_ErrorIsNoopOrCallbackError ==
    /\ \A id \in Ids : path[id] = "rejected" => cb_cnt[id] = 0
    /\ (Idle /\ ret.op = "submit_request") =>
          LET id == ret.id IN
          /\ ~ret.ok <=> (path[id] = "rejected" \/ ~last_cb.ok)
          /\ (~last_cb.ok /\ path[id] = "sync") =>
                 (last_cb.id = id /\ cb_cnt[id] = 1)
          /\ (~last_cb.ok /\ path[id] = "async") => last_cb.res = -1
          /\ ret.ok => (cb_cnt[id] = 1 \/ (InLists(id) /\ cb_cnt[id] = 0))

\* submit_request has returned an error for a Cb that stays in the queue:
\* the callback of another Cb, failed by process_list, returned the error.
C6_Witness ==
    /\ Idle
    /\ ret.op = "submit_request"
    /\ ~ret.ok
    /\ path[ret.id] = "async"
    /\ InLists(ret.id)
    /\ last_cb.id # ret.id

SubmitErrorStep ==
    /\ (pc = "push_back" /\ index >= Len(iocbs) /\ is_err) =>
          /\ pc' = "fail_cb"
          /\ Len(aio_in_queue') = Len(aio_in_queue) - 1
          /\ Range(aio_in_queue') = Range(aio_in_queue) \ {node'}
          /\ node' \in Range(iocbs)
          /\ incomplete_cnt' = incomplete_cnt - 1
          /\ aio_in_flight' = aio_in_flight
          /\ Range(iocbs) \cap Range(aio_in_flight) = {}
          /\ \A id \in Range(iocbs) : cb_cnt[id] = 0
          /\ cb_cnt' = cb_cnt
    /\ pc = "fail_cb" =>
          /\ cb_cnt' = [cb_cnt EXCEPT ![node] = 1]
          /\ last_cb'.id = node /\ last_cb'.res = -1
          /\ incomplete_cnt' = incomplete_cnt
          /\ aio_in_queue' = aio_in_queue
          /\ Range(iocbs) \ {node} \subseteq Range(aio_in_queue')

C10_ZeroAcceptedIsRetried ==
    /\ (pc = "push_back" /\ index >= Len(iocbs) /\ ~is_err /\ nr = 0) =>
          /\ Len(aio_in_queue) >= Len(iocbs)
          /\ \A i \in 1..Len(iocbs) :
                 /\ aio_in_queue[Len(aio_in_queue) + 1 - i] = iocbs[i]
                 /\ cb_cnt[iocbs[i]] = 0
          /\ incomplete_cnt = Len(aio_in_queue) + Len(aio_in_flight)
    /\ ( /\ Idle
         /\ ret.op \in {"handle_complete", "flush_request"}
         /\ aio_in_queue # <<>>
         /\ list_tail(aio_in_queue) \in pushed
         /\ Len(aio_in_flight) < max_events ) => offered


\* ------------------------------------------------------------------------
\* Backend saturation: MaxSubmit > max_events asynchronous writes submitted
\* back to back to an engine with a context, a backend that takes every
\* batch it is offered (process_list never offers more than the room left)
\* and delivers at least one completion on each wake, the ready handler run
\* on every wake, and no flush_request.
InitLive ==
    /\ Init
    /\ ctx_is_some

\* The next of the MaxSubmit writes; all of them precede the first wake.
rw_async_in_sequence ==
    /\ next_id <= MaxSubmit
    /\ rw_async

\* ctx.submit(&iocbs) of a backend with room: Ok(iocbs.len()).
SubmitBatchAccepted ==
    /\ SubmitBatch
    /\ ~is_err'
    /\ nr' = Len(iocbs)

\* The ready handler, woken by the completion eventfd: handle_complete with
\* at least one event to reap.
handle_complete_wake ==
    /\ next_id > MaxSubmit
    /\ kernel # {}
    /\ handle_complete
    /\ evts' # <<>>

NextLive ==
    \/ rw_async_in_sequence
    \/ handle_complete_wake
    \/ ReapEvent
    \/ UnlinkEvent
    \/ Refill
    \/ process_list
    \/ FillBatch
    \/ SubmitBatchAccepted
    \/ AfterSubmit

\* Every submission is made, every handler runs to its end and every wake is
\* served.
SpecLive == InitLive /\ [][NextLive]_vars /\ WF_vars(NextLive)

\* C4 as claimed: under backend saturation, eventually all MaxSubmit
\* completion callbacks have fired and incomplete_cnt is 0.
C4_SaturationCompletes ==
    <>(/\ \A id \in Ids : cb_cnt[id] = 1
       /\ incomplete_cnt = 0)

\* ------------------------------------------------------------------------
\* C11: the result passed to the callback for a reaped event is the byte
\* count of the event when its status is 0 and the byte count equals
\* Cb.nbytes, and -1 otherwise.
C11_EventResult ==
    pc = "unlink" =>
        /\ last_cb.id = evt.user_data
        /\ (evt.status = 0 /\ evt.res = heap[node].nbytes) => last_cb.res = evt.res
        /\ (evt.status # 0 \/ evt.res # heap[node].nbytes) => last_cb.res = -1

\* An event with status 0 and an excess byte count was reported as -1.
C11_Witness ==
    /\ pc = "unlink"
    /\ evt.status = 0
    /\ evt.res > heap[node].nbytes
    /\ last_cb.res = -1

\* C12 as claimed: handle_complete reports true exactly when it observed at
\* least one completion event.
C12_DoneIffEventObserved ==
    (Idle /\ ret.op = "handle_complete" /\ ret.ok) =>
        (ret.done <=> evt # NoEvt)

\* The opcodes that are always served by a raw primitive.
RawOnlyOps == {"Discard", "WriteZeroes", "WriteZeroesUnmap"}

\* C13: a Discard, WriteZeroes or WriteZeroesUnmap request, a write promoted
\* to one included, is completed inside submit_request whether or not there
\* is a ctx: its callback has been invoked once when the call returns, and
\* the call leaves the queue, the in-flight list and incomplete_cnt as they
\* were.
C13_RawOnlyOpsAreSynchronous ==
    [][ (next_id' = next_id + 1 /\ req'.op \in RawOnlyOps) =>
          /\ req'.branch \in {"discard_sync", "write_zeroes_sync"}
          /\ pc' = "idle"
          /\ ret'.op = "submit_request" /\ ret'.id = next_id
          /\ cb_cnt' = [cb_cnt EXCEPT ![next_id] = 1]
          /\ last_cb'.id = next_id
          /\ ret'.ok = last_cb'.ok
          /\ aio_in_queue' = aio_in_queue
          /\ aio_in_flight' = aio_in_flight
          /\ incomplete_cnt' = incomplete_cnt
          /\ kernel' = kernel
      ]_vars

\* A write promoted to WriteZeroes has completed, with a ctx, while Cbs
\* submitted before it wait in the queue and in flight.
C13_Witness ==
    /\ Idle
    /\ ctx_is_some
    /\ ret.op = "submit_request"
    /\ req.opcode = "Pwritev" /\ req.op = "WriteZeroes"
    /\ cb_cnt[ret.id] = 1
    /\ \E i \in Range(aio_in_queue) : i < ret.id /\ cb_cnt[i] = 0
    /\ \E i \in Range(aio_in_flight) : i < ret.id /\ cb_cnt[i] = 0

\* C14: submit_request of a Cb whose opcode is Noop returns an error, invokes
\* no callback and leaves the queue, the in-flight list and incomplete_cnt
\* as they were, with every engine.
C14_NoopIsRejected ==
    [][ (next_id' = next_id + 1 /\ req'.opcode = "Noop") =>
          /\ req'.branch = "noop"
          /\ pc' = "idle"
          /\ ret'.op = "submit_request" /\ ret'.id = next_id
          /\ ~ret'.ok
          /\ cb_cnt' = cb_cnt
          /\ last_cb' = NoCall
          /\ aio_in_queue' = aio_in_queue
          /\ aio_in_flight' = aio_in_flight
          /\ incomplete_cnt' = incomplete_cnt
          /\ kernel' = kernel
      ]_vars

\* A Noop was rejected by an engine with a ctx that has Cbs queued and in
\* flight.
C14_Witness ==
    /\ Idle
    /\ ctx_is_some
    /\ req.opcode = "Noop"
    /\ ~ret.ok
    /\ path[ret.id] = "rejected"
    /\ cb_cnt[ret.id] = 0
    /\ aio_in_queue # <<>>
    /\ aio_in_flight # <<>>

\* ========================================================================
\* The synchronous branches of submit_request, byte for byte: one Cb is
\* submitted to an engine that dispatches it to a branch that completes it
\* before returning (rw_sync, flush_sync, discard_sync, write_zeroes_sync
\* and the bounce path of misaligned direct I/O), on a file of FileCells
\* cells of the largest alignment; a successful write may be followed by a
\* read of the same range into another buffer.

\* Size of the file, in cells of 4 bytes.
FileCells == 4
\* Size limit of the bounce buffer, in cells of 4 bytes.
BounceCells == 3
\* MAX_LEN_BOUNCE_BUFF (1 << 20), scaled down.
MAX_LEN_BOUNCE_BUFF == BounceCells * 4

FileLen == FileCells * 4
\* The file as the tests fill it: every byte tells its place.
FileInit == [i \in 1..FileLen |-> 10 + i]

\* Guest addresses: sources of writes and targets of reads below 16, the
\* targets of a read-back from 16 on.
Addr == 0..31
\* Bytes of a non-zero source, of an all-zero source, and the filler of a
\* read target.
DataMem == [a \in Addr |-> 100 + a]
ZeroMem == [a \in Addr |-> 0]
FillMem == [a \in Addr |-> 99]

\* Iovec::new
Iovec(base, len) == [iov_base |-> base, iov_len |-> len]

\* The alignments of the file drivers (req_align = buf_align).
SyncAligns == {2, 4}
SyncOffsets == 0..4
\* One aligned buffer of one 64-bit word, the same at an odd address, two
\* buffers of odd lengths, two aligned buffers of 12 bytes together, one
\* buffer shorter than a cell, and no buffer.
SyncIovecs ==
    { << Iovec(0, 8) >>,
      << Iovec(1, 8) >>,
      << Iovec(0, 3), Iovec(4, 5) >>,
      << Iovec(0, 4), Iovec(8, 8) >>,
      << Iovec(0, 2) >>,
      << >> }
\* The buffers of a read-back of n bytes: aligned, at an odd address, split.
ReadBackIovecs(n) ==
    { << Iovec(16, n) >>, << Iovec(17, n) >> }
    \cup (IF n > 1 THEN { << Iovec(16, 1), Iovec(20, n - 1) >> } ELSE {})

SyncProperty ==
    { [direct |-> d, req_align |-> a, buf_align |-> a, discard |-> dis,
       write_zeroes |-> wz] :
      d \in BOOLEAN, a \in SyncAligns, dis \in BOOLEAN, wz \in WriteZeroesState }

\* The calls of the file driver, each with the guest memory it finds.
SyncRequests(p) ==
    { [cb |-> read_vectored(p, v, o), mem |-> FillMem] :
          v \in SyncIovecs, o \in SyncOffsets }
    \cup { [cb |-> write_vectored(p, v, o), mem |-> mm] :
          v \in SyncIovecs, o \in SyncOffsets, mm \in {DataMem, ZeroMem} }
    \cup { [cb |-> discard(p, 4, 4), mem |-> FillMem],
           [cb |-> write_zeroes(p, 4, 4, FALSE), mem |-> FillMem],
           [cb |-> write_zeroes(p, 4, 4, TRUE), mem |-> FillMem],
           [cb |-> datasync(p), mem |-> FillMem],
           [cb |-> package_aiocb(p, "Noop", <<>>, 0, 0), mem |-> FillMem] }

\* The Cb as submit_request sees it: each iovec with the bytes at its
\* address.
Loaded(cb, m) ==
    [cb EXCEPT !.iovec =
        [i \in 1..Len(cb.iovec) |->
            Iov(cb.iovec[i].iov_base,
                [k \in 1..cb.iovec[i].iov_len |-> m[cb.iovec[i].iov_base + k - 1]])]]

Min(a, b) == IF a < b THEN a ELSE b
Max(a, b) == IF a > b THEN a ELSE b

\* num_ops::round_down and round_up (no overflow within the bounds).
round_down(origin, align) == origin - (origin % align)
round_up(origin, align) ==
    IF origin % align = 0 THEN origin ELSE origin + (align - (origin % align))

\* n bytes of a buffer or of the file from position pos (counted from 0),
\* and a buffer with the bytes src put at position pos.
Slice(buf, pos, n) == [i \in 1..n |-> buf[pos + i]]
Splice(buf, pos, src) ==
    [i \in 1..Len(buf) |->
        IF i > pos /\ i <= pos + Len(src) THEN src[i - pos] ELSE buf[i]]

\* What memalign returns is not initialised.
Garbage == -1

\* raw_read / raw_write (raw.rs): the number of bytes transferred is the
\* number asked for (what the file holds from there, for a read), one less,
\* or an error.
RawReadLens(n, off) ==
    LET avail == Max(0, Min(n, FileLen - off)) IN
    {-1, avail} \cup (IF avail > 0 THEN {avail - 1} ELSE {})
RawWriteLens(n) == {-1, n} \cup (IF n > 0 THEN {n - 1} ELSE {})

\* mem_from_buf and mem_to_buf: copy between a buffer and guest memory.
\* Variant that writes one byte further on.
mem_from_buf_shifted(m, buf, hva) ==
    [a \in Addr |-> IF a > hva /\ a <= hva + Len(buf) THEN buf[a - hva] ELSE m[a]]
mem_from_buf(m, buf, hva) ==
    [a \in Addr |-> IF a >= hva /\ a < hva + Len(buf) THEN buf[a - hva + 1] ELSE m[a]]
mem_to_buf(m, n, hva) == [i \in 1..n |-> m[hva + i - 1]]

\* iov_from_buf_direct: buf goes to the iovecs in order; the new memory and
\* the number of bytes written.
RECURSIVE iov_from_buf_loop(_, _, _, _)
iov_from_buf_loop(iovec, buf, m, start) ==
    IF iovec = <<>> THEN [mem |-> m, end |-> start]
    ELSE LET iov == Head(iovec)
             end == Min(start + iov.iov_len, Len(buf))
             m2 == mem_from_buf(m, SubSeq(buf, start + 1, end), iov.iov_base)
         IN IF end >= Len(buf) THEN [mem |-> m2, end |-> end]
            ELSE iov_from_buf_loop(Tail(iovec), buf, m2, end)
iov_from_buf_direct(iovec, buf, m) == iov_from_buf_loop(iovec, buf, m, 0)

\* iov_to_buf_direct with offset 0, as handle_misaligned_rw calls it: the
\* bytes read from the iovecs into a buffer of n bytes (their number is the
\* result of the function).
RECURSIVE iov_to_buf_loop(_, _, _, _)
iov_to_buf_loop(iovec, n, m, acc) ==
    IF iovec = <<>> THEN acc
    ELSE LET iov == Head(iovec)
             end == Min(Len(acc) + iov.iov_len, n)
             acc2 == acc \o mem_to_buf(m, end - Len(acc), iov.iov_base)
         IN IF end >= n THEN acc2 ELSE iov_to_buf_loop(Tail(iovec), n, m, acc2)
\* Variant that reads on behind the first buffer.
iov_to_buf_direct_contiguous(iovec, n, m) ==
    IF iovec = <<>> THEN <<>> ELSE mem_to_buf(m, n, Head(iovec).iov_base)
iov_to_buf_direct(iovec, n, m) == iov_to_buf_loop(iovec, n, m, <<>>)

\* iov_discard_front_direct: the iovecs without their first size bytes, or
\* None when they hold no more than size bytes.
RECURSIVE iov_discard_front_direct(_, _)
iov_discard_front_direct(iovec, size) ==
    IF iovec = <<>> THEN [some |-> FALSE, iovec |-> <<>>]
    ELSE LET iov == Head(iovec) IN
         IF iov.iov_len > size
         THEN [some |-> TRUE,
               iovec |-> << Iovec(iov.iov_base + size, iov.iov_len - size) >>
                         \o Tail(iovec)]
         ELSE iov_discard_front_direct(Tail(iovec), size - iov.iov_len)

\* ------------------------------------------------------------------------
\* What the synchronous branches never touch.
asyncvars == << engine, aio_in_queue, aio_in_flight, incomplete_cnt, heap,
                kernel, offered, pushed, evt, combvars, handlervars,
                purevars >>

InitSync ==
    /\ EngineInit
    /\ \E p \in SyncProperty : \E r \in SyncRequests(p) :
          /\ aiocb = r.cb
          /\ mem = r.mem
    /\ Dispatch(Loaded(aiocb, mem), ctx_is_some) \notin {"rw_async", "flush_async"}
    /\ file = FileInit
    /\ bounce_buffer = <<>>
    /\ win_offset = 0
    /\ iov_rest = <<>>
    /\ need_tail = FALSE
    /\ rw_res = 0
    /\ raw_log = <<>>
    /\ wrote = NoCb
    /\ NoCombine
    /\ Unregistered

\* submit_request is entered with aiocb.
Entered(branch) ==
    /\ pc = "idle"
    /\ aiocb # NoCb
    /\ req = NoReq
    /\ Dispatch(Loaded(aiocb, mem), ctx_is_some) = branch
    /\ req' = Request(Loaded(aiocb, mem), ctx_is_some)

\* return (self.complete_func)(&cb, res)
SyncComplete(res) ==
    /\ rw_res' = res
    /\ \E ok \in BOOLEAN :
          /\ complete_func(next_id, res, ok)
          /\ Return("submit_request", next_id, ok, FALSE)
    /\ path' = [path EXCEPT ![next_id] = "sync"]
    /\ next_id' = next_id + 1

\* One raw read or write of the bounce path: what it is for, where, how
\* many bytes were asked for, how many came, and how many are needed.
RawOp(what, off, len, got, need) ==
    [what |-> what, off |-> off, len |-> len, ret |-> got, need |-> need]

\* raw_discard and raw_write_zeroes (raw.rs), when they succeed: the range
\* reads as zeroes.
Zeroed(f, off, n) == Splice(f, off, [i \in 1..n |-> 0])

\* raw_writev: the file after len bytes of the iovecs went to offset.
raw_writev(f, cb, m, len) ==
    IF len > 0
    THEN Splice(f, cb.offset,
                SubSeq(iov_to_buf_direct(cb.iovec, cb.nbytes, m), 1, len))
    ELSE f

\* rw_sync: raw_readv or raw_writev of the whole request.
RwSync ==
    /\ Entered("rw_sync")
    /\ IF aiocb.opcode = "Preadv"
       THEN \E len \in RawReadLens(aiocb.nbytes, aiocb.offset) :
               /\ mem' = IF len > 0
                         THEN iov_from_buf_direct(aiocb.iovec,
                                  Slice(file, aiocb.offset, len), mem).mem
                         ELSE mem
               /\ file' = file
               /\ SyncComplete(rw_sync(aiocb, len))
       ELSE \E len \in RawWriteLens(aiocb.nbytes) :
               /\ file' = raw_writev(file, aiocb, mem, len)
               /\ mem' = mem
               /\ SyncComplete(rw_sync(aiocb, len))
    /\ UNCHANGED << asyncvars, aiocb, bounce_buffer, win_offset, iov_rest,
                    need_tail, raw_log, wrote >>

\* flush_sync: raw_datasync.
FlushSync ==
    /\ Entered("flush_sync")
    /\ \E raw \in RawStatus : SyncComplete(raw)
    /\ UNCHANGED << asyncvars, aiocb, file, mem, bounce_buffer, win_offset,
                    iov_rest, need_tail, raw_log, wrote >>

\* discard_sync: raw_discard.
DiscardSync ==
    /\ Entered("discard_sync")
    /\ \E raw \in RawStatus :
          /\ file' = IF raw = 0 THEN Zeroed(file, aiocb.offset, aiocb.nbytes)
                     ELSE file
          /\ SyncComplete(raw)
    /\ UNCHANGED << asyncvars, aiocb, mem, bounce_buffer, win_offset, iov_rest,
                    need_tail, raw_log, wrote >>

\* write_zeroes_sync: raw_discard first for WriteZeroesUnmap, then
\* raw_write_zeroes unless the discard succeeded.
WriteZeroesSync ==
    /\ Entered("write_zeroes_sync")
    /\ \E raw_d \in RawStatus, raw_wz \in RawStatus :
          LET unmap == req'.op = "WriteZeroesUnmap"
              res == write_zeroes_sync(req'.op, raw_d, raw_wz)
              log_d == IF unmap
                       THEN << RawOp("discard", aiocb.offset, aiocb.nbytes,
                                     raw_d, 0) >>
                       ELSE << >>
              log_wz == IF unmap /\ raw_d = 0
                        THEN << >>
                        ELSE << RawOp("write_zeroes", aiocb.offset,
                                      aiocb.nbytes, raw_wz, 0) >>
          IN /\ raw_log' = log_d \o log_wz
             /\ file' = IF res = 0 THEN Zeroed(file, aiocb.offset, aiocb.nbytes)
                        ELSE file
             /\ SyncComplete(res)
    /\ UNCHANGED << asyncvars, aiocb, mem, bounce_buffer, win_offset, iov_rest,
                    need_tail, wrote >>

\* OpCode::Noop => Err
NoopErr ==
    /\ Entered("noop")
    /\ Return("submit_request", next_id, FALSE, FALSE)
    /\ path' = [path EXCEPT ![next_id] = "rejected"]
    /\ next_id' = next_id + 1
    /\ UNCHANGED << asyncvars, cb_cnt, last_cb, syncvars >>

\* ------------------------------------------------------------ bounce path
\* The length of the bounce buffer.
buff_len(cb) ==
    Min(round_down(cb.nbytes + cb.req_align * 2, cb.req_align), MAX_LEN_BOUNCE_BUFF)

\* Variant that rounds the high edge down.
high_align_rounded_down == round_down(aiocb.offset + aiocb.nbytes, aiocb.req_align)

\* The edges of the request and of its expansion to whole cells.
\* Variant that starts at the offset of the request.
offset_align_unrounded == aiocb.offset
offset_align == round_down(aiocb.offset, aiocb.req_align)
high == aiocb.offset + aiocb.nbytes
high_align == round_up(high, aiocb.req_align)

\* Variant that reports a failure as success.
Bail_reports_ok ==
    /\ rw_res' = 0
    /\ pc' = "bounce_done"

\* handle_misaligned_rw leaves with an error or with Ok: res is -1 or 0.
Bail ==
    /\ rw_res' = -1
    /\ pc' = "bounce_done"
Finish ==
    /\ rw_res' = 0
    /\ pc' = "bounce_done"

\* request_misaligned: memalign of the bounce buffer, which may fail.
BounceAlloc ==
    /\ Entered("bounce")
    /\ \/ /\ raw_log' = << RawOp("alloc", 0, buff_len(aiocb), -1, 0) >>
          /\ SyncComplete(-1)
          /\ UNCHANGED bounce_buffer
       \/ /\ bounce_buffer' = [i \in 1..buff_len(aiocb) |-> Garbage]
          /\ raw_log' = <<>>
          /\ pc' = "misaligned_rw"
          /\ UNCHANGED << locals, cb_cnt, path, last_cb, ret, next_id, rw_res >>
    /\ UNCHANGED << asyncvars, aiocb, file, mem, win_offset, iov_rest,
                    need_tail, wrote >>

\* handle_misaligned_rw up to its loop: for a write, the head cell is read
\* when the request starts inside it, and need_tail is worked out.
MisalignedStart ==
    /\ pc = "misaligned_rw"
    /\ win_offset' = offset_align
    /\ iov_rest' = aiocb.iovec
    /\ IF aiocb.opcode = "Preadv"
       THEN /\ pc' = "read_window"
            /\ UNCHANGED << bounce_buffer, need_tail, raw_log, rw_res >>
       ELSE IF aiocb.offset > offset_align
            THEN \E len \in RawReadLens(aiocb.req_align, offset_align) :
                    /\ raw_log' = Append(raw_log,
                           RawOp("head", offset_align, aiocb.req_align, len,
                                 aiocb.req_align))
                    /\ bounce_buffer' =
                           IF len > 0
                           THEN Splice(bounce_buffer, 0,
                                       Slice(file, offset_align, len))
                           ELSE bounce_buffer
                    /\ IF len < 0 \/ len # aiocb.req_align
                       THEN Bail /\ UNCHANGED need_tail
                       ELSE /\ need_tail' =
                                 (/\ ~(offset_align + aiocb.req_align >= high)
                                  /\ high_align > high)
                            /\ pc' = "write_window"
                            /\ UNCHANGED rw_res
            ELSE /\ need_tail' = (high_align > high)
                 /\ pc' = "write_window"
                 /\ UNCHANGED << bounce_buffer, raw_log, rw_res >>
    /\ UNCHANGED << asyncvars, locals, cb_cnt, path, last_cb, ret, next_id,
                    req, aiocb, file, mem, wrote >>

\* The window of one iteration of the loops.
win_nbytes == Min(high_align - win_offset, Len(bounce_buffer))
real_offset == Max(win_offset, aiocb.offset)
real_high == Min(win_offset + win_nbytes, high)
real_nbytes == real_high - real_offset
\* Where the data of the request lies in the bounce buffer.
data_pos == real_offset - win_offset

\* Step3 of the loops: the next window, if there is one.
NextWindow ==
    IF win_offset + win_nbytes >= high_align
    THEN Finish /\ UNCHANGED << win_offset, iov_rest >>
    ELSE LET d == iov_discard_front_direct(iov_rest, real_nbytes) IN
         IF d.some
         THEN /\ iov_rest' = d.iovec
              /\ win_offset' = win_offset + win_nbytes
              /\ UNCHANGED << pc, rw_res >>
         ELSE Bail /\ UNCHANGED << win_offset, iov_rest >>

\* One iteration of the read loop: raw_read into the bounce buffer, copy of
\* the requested part to the iovecs.
ReadWindow ==
    /\ pc = "read_window"
    /\ \E len \in RawReadLens(win_nbytes, win_offset) :
          /\ raw_log' = Append(raw_log,
                 RawOp("read", win_offset, win_nbytes, len,
                       real_high - win_offset))
          /\ bounce_buffer' =
                 IF len > 0
                 THEN Splice(bounce_buffer, 0, Slice(file, win_offset, len))
                 ELSE bounce_buffer
          /\ IF len < 0 \/ len < real_high - win_offset
             THEN Bail /\ UNCHANGED << mem, win_offset, iov_rest >>
             ELSE LET src == Slice(bounce_buffer', data_pos, real_nbytes)
                      r == iov_from_buf_direct(iov_rest, src, mem)
                  IN /\ mem' = r.mem
                     /\ IF r.end = real_nbytes
                        THEN NextWindow
                        ELSE Bail /\ UNCHANGED << win_offset, iov_rest >>
    /\ UNCHANGED << asyncvars, locals, cb_cnt, path, last_cb, ret, next_id,
                    req, aiocb, file, need_tail, wrote >>

\* Where the tail cell of a window lies, in the file and in the buffer.
tail_pos == win_nbytes - aiocb.req_align

\* Variant that never reads the tail cell before the write.
LoadTail_never == FALSE
\* The tail cell is read in the window that holds the end of the request.
LoadTail == real_high = high /\ need_tail

\* One iteration of the write loop: the tail cell is read if this window
\* needs it, the iovecs are copied into the bounce buffer, and the window
\* is written with raw_write.
WriteWindow ==
    /\ pc = "write_window"
    /\ \E tlen \in (IF LoadTail
                    THEN RawReadLens(aiocb.req_align, win_offset + tail_pos)
                    ELSE {aiocb.req_align}),
          wlen \in RawWriteLens(win_nbytes) :
          LET buf1 == IF LoadTail /\ tlen > 0
                      THEN Splice(bounce_buffer, tail_pos,
                                  Slice(file, win_offset + tail_pos, tlen))
                      ELSE bounce_buffer
              log1 == IF LoadTail
                      THEN Append(raw_log,
                               RawOp("tail", win_offset + tail_pos,
                                     aiocb.req_align, tlen, aiocb.req_align))
                      ELSE raw_log
              data == iov_to_buf_direct(iov_rest, real_nbytes, mem)
              buf2 == Splice(buf1, data_pos, data)
          IN IF tlen < 0 \/ tlen # aiocb.req_align
             THEN /\ bounce_buffer' = buf1
                  /\ raw_log' = log1
                  /\ Bail
                  /\ UNCHANGED << file, win_offset, iov_rest >>
             ELSE IF Len(data) # real_nbytes
             THEN /\ bounce_buffer' = buf2
                  /\ raw_log' = log1
                  /\ Bail
                  /\ UNCHANGED << file, win_offset, iov_rest >>
             ELSE /\ bounce_buffer' = buf2
                  /\ raw_log' = Append(log1,
                         RawOp("write", win_offset, win_nbytes, wlen, win_nbytes))
                  /\ file' = IF wlen > 0
                             THEN Splice(file, win_offset, Slice(buf2, 0, wlen))
                             ELSE file
                  /\ IF wlen < 0 \/ wlen # win_nbytes
                     THEN Bail /\ UNCHANGED << win_offset, iov_rest >>
                     ELSE NextWindow
    /\ UNCHANGED << asyncvars, locals, cb_cnt, path, last_cb, ret, next_id,
                    req, aiocb, mem, need_tail, wrote >>

\* Back in submit_request: the bounce buffer is freed and the callback gets
\* 0 or -1.
BounceDone ==
    /\ pc = "bounce_done"
    /\ bounce_buffer' = <<>>
    /\ SyncComplete(rw_res)
    /\ UNCHANGED << asyncvars, req, aiocb, file, mem, win_offset, iov_rest,
                    need_tail, raw_log, wrote >>

\* The write succeeded: success is 0 on the bounce path and for a promoted
\* write, nbytes from rw_sync.
Succeeded ==
    /\ pc = "idle"
    /\ ret.op = "submit_request"
    /\ last_cb.id = ret.id
    /\ last_cb.res >= 0

\* After a write that succeeded the caller reads the same range into
\* another buffer, through the same file driver.
ReadBack ==
    /\ Succeeded
    /\ aiocb.opcode = "Pwritev"
    /\ wrote = NoCb
    /\ \E v \in ReadBackIovecs(aiocb.nbytes) :
          aiocb' = read_vectored(aiocb, v, aiocb.offset)
    /\ mem' = [a \in Addr |-> IF a >= 16 THEN FillMem[a] ELSE mem[a]]
    /\ Dispatch(Loaded(aiocb', mem'), ctx_is_some) \notin {"rw_async", "flush_async"}
    /\ wrote' = aiocb
    /\ req' = NoReq
    /\ raw_log' = <<>>
    /\ UNCHANGED << asyncvars, pc, locals, cb_cnt, path, last_cb, ret, next_id,
                    file, bounce_buffer, win_offset, iov_rest, need_tail,
                    rw_res >>

NextSync ==
    \/ RwSync
    \/ FlushSync
    \/ DiscardSync
    \/ WriteZeroesSync
    \/ NoopErr
    \/ BounceAlloc
    \/ MisalignedStart
    \/ ReadWindow
    \/ WriteWindow
    \/ BounceDone
    \/ ReadBack

SpecSync == InitSync /\ [][NextSync]_vars

\* ------------------------------------------------------------------------
\* The bytes the iovecs of a Cb point at, one buffer after the other.
RECURSIVE IovBytes(_, _)
IovBytes(iovec, m) ==
    IF iovec = <<>> THEN <<>>
    ELSE mem_to_buf(m, Head(iovec).iov_len, Head(iovec).iov_base)
         \o IovBytes(Tail(iovec), m)

\* Every buffer has a length divisible by 8 and holds zero bytes only.
AllZeroWords(iovec, m) ==
    \A i \in 1..Len(iovec) :
        /\ iovec[i].iov_len % 8 = 0
        /\ \A k \in 1..iovec[i].iov_len : m[iovec[i].iov_base + k - 1] = 0

\* C15: a write that does not take the bounce path is dispatched as
\* WriteZeroesUnmap when write_zeroes is Unmap, discard is enabled and every
\* buffer is made of zero 64-bit words; as WriteZeroes when write_zeroes is
\* not Off and every buffer is made of zero words but the request is not
\* unmapped; and as a write otherwise.  No other opcode is changed.
C15_ZeroWritePromotion ==
    (req # NoReq /\ req.branch # "bounce") =>
        LET zero == aiocb.write_zeroes # "Off" /\ AllZeroWords(aiocb.iovec, mem)
            unmap == aiocb.write_zeroes = "Unmap" /\ aiocb.discard
        IN /\ req.opcode = aiocb.opcode
           /\ aiocb.opcode = "Pwritev" =>
                 /\ req.op = "WriteZeroesUnmap" <=> (zero /\ unmap)
                 /\ req.op = "WriteZeroes" <=> (zero /\ ~unmap)
                 /\ req.op = "Pwritev" <=> ~zero
           /\ aiocb.opcode # "Pwritev" => req.op = aiocb.opcode

\* An aligned direct write of zeroes was promoted to WriteZeroesUnmap by an
\* engine with a ctx.
C15_Witness ==
    /\ Idle
    /\ ctx_is_some
    /\ aiocb.opcode = "Pwritev" /\ aiocb.direct
    /\ req.op = "WriteZeroesUnmap"
    /\ last_cb.res = 0

\* C16: a write through the engine with backend Off that succeeded leaves
\* the file as it was but for the bytes [offset, offset + nbytes), which are
\* the bytes of the iovecs in order.
C16_WriteReplacesRange ==
    (Succeeded /\ engine = "Off" /\ req.opcode = "Pwritev" /\ wrote = NoCb) =>
        file = Splice(FileInit, aiocb.offset, IovBytes(aiocb.iovec, mem))

\* A write went through the bounce path in two windows, with the head cell
\* and the tail cell read first.
C16_Witness ==
    /\ Succeeded /\ engine = "Off" /\ req.opcode = "Pwritev" /\ wrote = NoCb
    /\ req.branch = "bounce"
    /\ \E i \in 1..Len(raw_log) : raw_log[i].what = "head"
    /\ \E i \in 1..Len(raw_log) : raw_log[i].what = "tail"
    /\ Cardinality({ i \in 1..Len(raw_log) : raw_log[i].what = "write" }) = 2

\* C17: a read through the engine with backend Off that succeeded has
\* filled the iovecs, in order, with the file bytes [offset, offset +
\* nbytes), and has left the file as it was.
C17_ReadFillsIovecs ==
    (Succeeded /\ engine = "Off" /\ req.opcode = "Preadv" /\ wrote = NoCb) =>
        /\ IovBytes(aiocb.iovec, mem) = Slice(FileInit, aiocb.offset, aiocb.nbytes)
        /\ file = FileInit

\* A read went through the bounce path in two windows.
C17_Witness ==
    /\ Succeeded /\ engine = "Off" /\ req.opcode = "Preadv" /\ wrote = NoCb
    /\ req.branch = "bounce"
    /\ Len(raw_log) = 2
    /\ aiocb.offset % aiocb.req_align # 0

\* C18: a read that follows a write of the same offset and length, both
\* successful, finds in its buffers the bytes of the buffers of the write.
C18_RoundTrip ==
    (Succeeded /\ wrote # NoCb /\ req.opcode = "Preadv") =>
        IovBytes(aiocb.iovec, mem) = IovBytes(wrote.iovec, mem)

\* The write took the bounce path and the read-back did not.
C18_Witness ==
    /\ Succeeded /\ wrote # NoCb /\ req.opcode = "Preadv"
    /\ req.branch = "rw_sync"
    /\ request_misaligned(wrote)
    /\ wrote.nbytes > 0

\* The raw reads of a read, or the raw writes of a write, in their order.
Windows ==
    SelectSeq(raw_log,
              LAMBDA e : e.what = (IF aiocb.opcode = "Preadv" THEN "read"
                                   ELSE "write"))

\* C19: for a request of at most 2 * req_align bytes that the bounce path
\* served, the windows read (for a read) or written (for a write) follow
\* one another without gap or overlap from round_down(offset) to
\* round_up(offset + nbytes), and no raw read or write leaves that range.
C19_BounceCoverage ==
    ( /\ Idle /\ ret.op = "submit_request"
      /\ req.branch = "bounce" /\ last_cb.res = 0
      /\ aiocb.nbytes <= 2 * aiocb.req_align ) =>
        LET lo == round_down(aiocb.offset, aiocb.req_align)
            hi == round_up(aiocb.offset + aiocb.nbytes, aiocb.req_align)
            w == Windows
        IN /\ Len(w) >= 1
           /\ w[1].off = lo
           /\ \A i \in 1..Len(w) : w[i].len >= 0
           /\ \A i \in 1..(Len(w) - 1) : w[i + 1].off = w[i].off + w[i].len
           /\ w[Len(w)].off + w[Len(w)].len = hi
           /\ \A i \in 1..Len(raw_log) :
                  /\ raw_log[i].off >= lo
                  /\ raw_log[i].off + raw_log[i].len <= hi

\* A request of 2 * req_align bytes that starts inside a cell was served
\* with one window of three cells.
C19_Witness ==
    /\ Idle /\ ret.op = "submit_request"
    /\ req.branch = "bounce" /\ last_cb.res = 0
    /\ aiocb.nbytes = 2 * aiocb.req_align
    /\ aiocb.offset % aiocb.req_align # 0
    /\ Len(Windows) = 1
    /\ Windows[1].len = 3 * aiocb.req_align

\* The request is a direct read or write with an offset, a buffer address
\* or a buffer length off the alignment.
Misaligned ==
    /\ aiocb.direct
    /\ aiocb.opcode \in {"Preadv", "Pwritev"}
    /\ \/ aiocb.offset % aiocb.req_align # 0
       \/ \E i \in 1..Len(aiocb.iovec) :
             \/ aiocb.iovec[i].iov_base % aiocb.buf_align # 0
             \/ aiocb.iovec[i].iov_len % aiocb.req_align # 0

\* A failure of the bounce path: no buffer, a raw error, a head or tail
\* cell not read whole, a read that does not reach the end of the data in
\* the window, a write not written whole.
FailedOp(e) ==
    \/ e.what = "alloc"
    \/ e.ret < 0
    \/ e.what \in {"head", "tail", "write"} /\ e.ret # e.len
    \/ e.what = "read" /\ e.ret < e.need

\* C20: a misaligned direct read or write takes the bounce path with every
\* engine; no callback is invoked while it runs, and when submit_request
\* returns the callback has been invoked once, with 0 if no raw operation
\* failed and with -1 if one did, and the Cb is in no list.
C20_MisalignedIsSynchronous ==
    /\ req # NoReq => (Misaligned <=> req.branch = "bounce")
    /\ pc \in {"misaligned_rw", "read_window", "write_window", "bounce_done"} =>
          /\ req.branch = "bounce"
          /\ cb_cnt[next_id] = 0
    /\ (Idle /\ req.branch = "bounce") =>
          /\ ret.op = "submit_request"
          /\ cb_cnt[ret.id] = 1
          /\ last_cb.id = ret.id
          /\ ret.ok = last_cb.ok
          /\ last_cb.res = (IF \E i \in 1..Len(raw_log) : FailedOp(raw_log[i])
                            THEN -1 ELSE 0)
          /\ ~InLists(ret.id)
          /\ incomplete_cnt = 0

\* With a ctx, the tail cell of a misaligned write came short and the
\* callback got -1.
C20_Witness ==
    /\ Idle /\ req.branch = "bounce"
    /\ ctx_is_some
    /\ last_cb.res = -1
    /\ \E i \in 1..Len(raw_log) :
          /\ raw_log[i].what = "tail"
          /\ raw_log[i].ret = raw_log[i].len - 1

\* The file after the same write was submitted with write_zeroes Off to an
\* engine without ctx and went through: rw_sync with a whole transfer.
WrittenWithPolicyOff ==
    LET cb == [aiocb EXCEPT !.write_zeroes = "Off"] IN
    CHOOSE f \in { raw_writev(FileInit, cb, mem, len) :
                     len \in { l \in RawWriteLens(cb.nbytes) :
                                 rw_sync(cb, l) >= 0 } } : TRUE

\* C21: a write of zeroes that was promoted to WriteZeroes or
\* WriteZeroesUnmap and succeeded leaves the file with the content that
\* the same write leaves with write_zeroes Off.
C21_PromotionIsLossless ==
    ( /\ Succeeded /\ wrote = NoCb
      /\ req.opcode = "Pwritev"
      /\ req.op \in {"WriteZeroes", "WriteZeroesUnmap"} ) =>
        /\ Dispatch(Loaded([aiocb EXCEPT !.write_zeroes = "Off"], mem), FALSE)
              = "rw_sync"
        /\ file = WrittenWithPolicyOff

\* A buffered write of 8 zero bytes to an odd offset was promoted under
\* policy On by an engine with a ctx and zeroed bytes of the file that held
\* something else.
C21_Witness ==
    /\ Succeeded /\ wrote = NoCb
    /\ ctx_is_some
    /\ req.opcode = "Pwritev" /\ req.op = "WriteZeroes"
    /\ aiocb.write_zeroes = "On"
    /\ ~aiocb.direct /\ aiocb.offset % 2 = 1 /\ aiocb.nbytes = 8
    /\ file # FileInit

\* ========================================================================
\* AioCb::req_is_completed, called once for each Cb of a group that shares
\* a combine record, by threads that interleave at the atomic operations.

\* The largest group.
MaxCombined == 3
\* The results the calls are given: two errors, zero, a byte count.
CompletionResults == {-2, -1, 0, 4}

\* enum AioReqResult
Inflight == [kind |-> "Inflight", v |-> 0]
Error(v) == [kind |-> "Error", v |-> v]
Done == [kind |-> "Done", v |-> 0]
NotReturned == [kind |-> "none", v |-> 0]

\* everything but the combine record and the calls
enginevars == << engine, aio_in_queue, aio_in_flight, incomplete_cnt, heap,
                 kernel, pc, caller, iocbs, fill, nr, is_err, index, evts,
                 done, offered, node, next_id, cb_cnt, path, pushed, last_cb,
                 ret, req, evt, aiocb, file, mem, bounce_buffer, win_offset,
                 iov_rest, need_tail, rw_res, raw_log, wrote, handlervars,
                 purevars >>

\* The calls not yet begun, on Cbs with (combined) or without a record.
NewCalls(k, combined) ==
    [1..k -> { [ret |-> r, combined |-> combined, at |-> "call", old |-> 0,
                out |-> NotReturned] : r \in CompletionResults }]

\* Either k Cbs with one combine record (cnt = k, res = 0), or one Cb with
\* combine_req None.
InitCombine ==
    /\ EngineInit
    /\ NoSync
    /\ Unregistered
    /\ published = <<>>
    /\ combine_res = 0
    /\ \/ \E k \in 1..MaxCombined :
             /\ combine_cnt = k
             /\ call \in NewCalls(k, TRUE)
       \/ /\ combine_cnt = 0
          /\ call \in NewCalls(1, FALSE)

\* Variant that stores without comparing.
compare_exchange_stores(current, expected, new) == new
\* AtomicI64::compare_exchange: the value afterwards.
compare_exchange(current, expected, new) ==
    IF current = expected THEN new ELSE current

\* if ret < 0 { res.compare_exchange(0, ret, ..) }
Publish(t) ==
    /\ call[t].at = "call" /\ call[t].combined /\ call[t].ret < 0
    /\ combine_res' = compare_exchange(combine_res, 0, call[t].ret)
    /\ published' = Append(published, call[t].ret)
    /\ call' = [call EXCEPT ![t].at = "fetch_sub"]
    /\ UNCHANGED << enginevars, combine_cnt >>

\* if cnt.fetch_sub(1, ..) > 1 { return AioReqResult::Inflight; }
\* (k calls on a count of k: the u32 never wraps below 0)
FetchSub(t) ==
    /\ call[t].combined
    /\ \/ call[t].at = "fetch_sub"
       \/ call[t].at = "call" /\ call[t].ret >= 0
    /\ combine_cnt' = combine_cnt - 1
    /\ call' = [call EXCEPT ![t].old = combine_cnt,
                            ![t].at = IF combine_cnt > 1 THEN "returned"
                                      ELSE "load",
                            ![t].out = IF combine_cnt > 1 THEN Inflight
                                       ELSE NotReturned]
    /\ UNCHANGED << enginevars, combine_res, published >>

\* let v = res.load(..); Error(v) if v < 0, else Done
LoadStatus(t) ==
    /\ call[t].at = "load"
    /\ call' = [call EXCEPT ![t].at = "returned",
                            ![t].out = IF combine_res < 0
                                       THEN Error(combine_res) ELSE Done]
    /\ UNCHANGED << enginevars, combine_cnt, combine_res, published >>

\* combine_req is None: Done
NotCombined(t) ==
    /\ call[t].at = "call" /\ ~call[t].combined
    /\ call' = [call EXCEPT ![t].at = "returned", ![t].out = Done]
    /\ UNCHANGED << enginevars, combine_cnt, combine_res, published >>

NextCombine ==
    \E t \in DOMAIN call :
        \/ Publish(t)
        \/ FetchSub(t)
        \/ LoadStatus(t)
        \/ NotCombined(t)

SpecCombine == InitCombine /\ [][NextCombine]_vars

\* The calls that returned something other than Inflight.
Finals == { t \in DOMAIN call : call[t].out.kind \in {"Error", "Done"} }
AllReturned == \A t \in DOMAIN call : call[t].at = "returned"
Combined == \E t \in DOMAIN call : call[t].combined

\* C22: of the req_is_completed calls on k Cbs that share a combine record
\* never more than one returns a final result; once all k have returned,
\* exactly one has, it is the call whose fetch_sub found 1, the others
\* returned Inflight, and the final result is Error(v) with v the first
\* negative result that was published if one of the k results was
\* negative, and Done if none was.
C22_OneFinalResult ==
    Combined =>
        /\ combine_cnt >= 0
        /\ Cardinality(Finals) <= 1
        /\ \A t \in Finals : call[t].old = 1
        /\ AllReturned =>
              /\ Cardinality(Finals) = 1
              /\ \A t \in DOMAIN call \ Finals : call[t].out = Inflight
              /\ \A t \in Finals :
                    call[t].out =
                        IF \E u \in DOMAIN call : call[u].ret < 0
                        THEN Error(published[1]) ELSE Done

\* Three Cbs: two failed with different errors, the third succeeded, was
\* the last to complete and returned the error published first.
C22_Witness ==
    /\ Combined /\ AllReturned
    /\ Len(call) = 3
    /\ published = << -2, -1 >>
    /\ \E t \in Finals : call[t].ret = 4 /\ call[t].out = Error(-2)

\* ========================================================================
\* The file driver with its notifier callbacks registered: the ready
\* handler and the poll handler of FileIoHandler run on the I/O thread
\* between the calls of the driver; the broken flag is set, and
\* drain_request runs, on other threads.
engine_and_sync == << engine, aio_in_queue, aio_in_flight, incomplete_cnt,
                      heap, kernel, pc, caller, iocbs, fill, nr, is_err,
                      index, evts, done, offered, node, next_id, cb_cnt,
                      path, pushed, last_cb, ret, req, evt, aiocb, file, mem,
                      bounce_buffer, win_offset, iov_rest, need_tail, rw_res,
                      raw_log, wrote >>

InitHandler ==
    /\ EngineInit
    /\ NoSync
    /\ NoCombine
    /\ broken = FALSE
    /\ NoHandler
    /\ split = NoSplit

\* The number of requests the driver submits.
HandlerSubmits == 2

\* The calls of the driver on the I/O thread, between two callbacks: the
\* requests that an engine with a ctx queues, every request to an engine
\* without ctx, and flush_request.
driver_submit_async ==
    /\ handler = "none" /\ next_id <= HandlerSubmits
    /\ rw_async
driver_submit_sync ==
    /\ handler = "none" /\ next_id <= HandlerSubmits
    /\ ~ctx_is_some
    /\ SubmitSync
driver_flush_request == handler = "none" /\ flush_request

\* The error policy of the device sets the flag.
mark_broken ==
    /\ ~broken
    /\ broken' = TRUE
    /\ UNCHANGED << engine_and_sync, combvars, purevars, handler, reap_res,
                    error_cb_cnt, notify, drain >>

\* Variant that finds the flag unset.
broken_load_unset == FALSE
\* h_lock.broken.load(Ordering::SeqCst)
broken_load == broken

\* A notifier callback returns to the event loop; observed tells whether
\* the reap it made handled an event.
NotifierReturn(kind, value, was_broken, observed) ==
    /\ notify' = [kind |-> kind, value |-> value, broken |-> was_broken,
                  observed |-> observed]
    /\ handler' = "none"

\* A notifier callback goes on to h_lock.aio_complete_handler().
NotifierProceeds(kind) ==
    /\ handler' = kind
    /\ ret' = NoRet
    /\ UNCHANGED notify

\* The ready handler up to its call of aio_complete_handler: read_fd, then
\* the flag.
ready_handler ==
    /\ pc = "idle" /\ handler = "none"
    /\ reap_res' = NotCalled
    /\ error_cb_cnt' = 0
    /\ IF broken_load
       THEN /\ NotifierReturn("ready", "None", TRUE, FALSE)
            /\ UNCHANGED ret
       ELSE NotifierProceeds("ready")
    /\ UNCHANGED << engine, queues, pc, locals, cb_cnt, path, pushed,
                    last_cb, offered, next_id, req, evt >>
    /\ UNCHANGED << aiocb, file, mem, bounce_buffer, win_offset, iov_rest,
                    need_tail, rw_res, raw_log, wrote, combvars, purevars,
                    broken, drain >>

\* handler_iopoll up to its call of aio_complete_handler: the flag, then
\* the engine.
handler_iopoll ==
    /\ pc = "idle" /\ handler = "none"
    /\ reap_res' = NotCalled
    /\ error_cb_cnt' = 0
    /\ IF broken_load
       THEN /\ NotifierReturn("iopoll", "None", TRUE, FALSE)
            /\ UNCHANGED ret
       ELSE IF engine = "Off"
       THEN /\ NotifierReturn("iopoll", "None", FALSE, FALSE)
            /\ UNCHANGED ret
       ELSE NotifierProceeds("iopoll")
    /\ UNCHANGED << engine, queues, pc, locals, cb_cnt, path, pushed,
                    last_cb, offered, next_id, req, evt >>
    /\ UNCHANGED << aiocb, file, mem, bounce_buffer, win_offset, iov_rest,
                    need_tail, rw_res, raw_log, wrote, combvars, purevars,
                    broken, drain >>

\* aio_complete_handler: self.aio.borrow_mut().handle_complete()
aio_complete_handler ==
    /\ handler # "none"
    /\ ret = NoRet
    /\ handle_complete

\* Variant that runs the error callback whatever the reap returned.
error_cb_calls_always(ok) == 1
\* .map_err(|e| { error_cb(); e }): the calls of error_cb.
error_cb_calls(ok) == IF ok THEN 0 ELSE 1

\* What the callback returns to the event loop after aio_complete_handler
\* returned res: the ready handler None, the poll handler Some(Vec::new())
\* for Ok(true) and None otherwise.
NotifierValue(kind, res) ==
    IF kind = "iopoll" /\ res.ok /\ res.done THEN "Some" ELSE "None"

\* handle_complete has returned: map_err runs error_cb on an error, and the
\* callback returns.
notifier_return ==
    /\ handler # "none"
    /\ pc = "idle" /\ ret.op = "handle_complete"
    /\ reap_res' = [called |-> TRUE, ok |-> ret.ok, done |-> ret.done]
    /\ error_cb_cnt' = error_cb_cnt + error_cb_calls(ret.ok)
    /\ NotifierReturn(handler, NotifierValue(handler, reap_res'), FALSE,
                      evt # NoEvt)
    /\ UNCHANGED << engine, queues, pc, locals, cb_cnt, path, pushed,
                    last_cb, offered, next_id, req, evt, ret >>
    /\ UNCHANGED << aiocb, file, mem, bounce_buffer, win_offset, iov_rest,
                    need_tail, rw_res, raw_log, wrote, combvars, purevars,
                    broken, drain >>

\* drain_request is called on another thread.
drain_request ==
    /\ drain.at = "idle"
    /\ drain' = [at |-> "loop", seen |-> -1]
    /\ UNCHANGED << engine_and_sync, combvars, purevars, broken, handler,
                    reap_res, error_cb_cnt, notify >>

\* while self.incomplete.load(Ordering::Acquire) != 0 { continue; }
drain_load ==
    /\ drain.at = "loop"
    /\ drain' = [at |-> IF incomplete_cnt = 0 THEN "returned" ELSE "loop",
                 seen |-> incomplete_cnt]
    /\ UNCHANGED << engine_and_sync, combvars, purevars, broken, handler,
                    reap_res, error_cb_cnt, notify >>

NextHandler ==
    \/ driver_submit_async
    \/ driver_submit_sync
    \/ driver_flush_request
    \/ mark_broken
    \/ ready_handler
    \/ handler_iopoll
    \/ aio_complete_handler
    \/ notifier_return
    \/ drain_request
    \/ drain_load
    \/ ReapEvent
    \/ UnlinkEvent
    \/ Refill
    \/ process_list
    \/ FillBatch
    \/ SubmitBatch
    \/ PushBack
    \/ AfterSubmit
    \/ FailOne

SpecHandler == InitHandler /\ [][NextHandler]_vars

\* C24: a notifier callback that finds the broken flag set returns None
\* without calling the reap: that step invokes no completion callback and
\* no error callback and leaves the queue, the in-flight list, the counter
\* and the backend as they were; and while the flag is set and no callback
\* is in the middle of a reap, no Cb that the backend has accepted leaves
\* the in-flight list or is completed.
C24_BrokenSkipsReap ==
    [][ /\ ( /\ broken /\ handler = "none" /\ pc = "idle"
             /\ (notify' # notify \/ handler' # handler) ) =>
              /\ notify'.broken /\ notify'.value = "None"
              /\ handler' = "none" /\ pc' = "idle"
              /\ ~reap_res'.called
              /\ error_cb_cnt' = 0
              /\ UNCHANGED << cb_cnt, last_cb, aio_in_queue, aio_in_flight,
                              incomplete_cnt, heap, kernel >>
        /\ (broken /\ handler = "none") =>
              \A id \in Range(aio_in_flight) \cap kernel :
                  /\ id \in Range(aio_in_flight') \cap kernel'
                  /\ cb_cnt'[id] = cb_cnt[id]
      ]_vars

\* The poll handler found the flag set and returned with a Cb in flight
\* whose completion event is ready.
C24_Witness ==
    /\ broken /\ handler = "none"
    /\ notify.kind = "iopoll" /\ notify.broken
    /\ pc = "idle"
    /\ \E id \in Range(aio_in_flight) : id \in kernel /\ cb_cnt[id] = 0

\* C25 as claimed: the poll handler returns Some (done) exactly when the
\* reap it made observed a completion event, and None (idle) otherwise;
\* with engine Off it returns None without calling the reap.
C25_PollDoneIffObserved ==
    (notify.kind = "iopoll" /\ handler = "none") =>
        /\ notify.value = "Some" <=> notify.observed
        /\ engine = "Off" => (~reap_res.called /\ notify.value = "None")

\* C26 as claimed: when the reap returns an error the error callback is
\* fired once and the notifier callback returns the error to the event
\* loop.
C26_ErrorPropagates ==
    (handler = "none" /\ reap_res.called /\ ~reap_res.ok) =>
        /\ error_cb_cnt = 1
        /\ notify.value = "Err"

\* C26: the error callback is fired once by a notifier callback whose reap
\* returned an error, which is the error of a completion callback, and not
\* at all by one whose reap succeeded or that made no reap; it is fired
\* after the reap has returned; and the callback then returns None to the
\* event loop: the error goes no further than the callback, which logs it.
C26_ErrorCallbackThenNone ==
    /\ handler # "none" => error_cb_cnt = 0
    /\ ~reap_res.called => error_cb_cnt = 0
    /\ (handler = "none" /\ reap_res.called) =>
          /\ error_cb_cnt = (IF reap_res.ok THEN 0 ELSE 1)
          /\ ~reap_res.ok => notify.value = "None"
          /\ ret.op = "handle_complete" =>
                /\ reap_res.ok = ret.ok
                /\ ~ret.ok => ~last_cb.ok

\* The reap handled an event with success and then failed in the refill:
\* the backend refused the batch and the callback of the Cb that
\* process_list completed with -1 returned an error.
C26_Witness ==
    /\ handler = "none" /\ reap_res.called /\ ~reap_res.ok
    /\ notify.kind = "ready"
    /\ ret.op = "handle_complete"
    /\ evt # NoEvt /\ evt.status = 0
    /\ last_cb.id # evt.user_data /\ last_cb.res = -1
    /\ offered
    /\ error_cb_cnt = 1

\* C27: with engine Off no handler of the engine is ever left unfinished,
\* the queue and the in-flight list are empty and incomplete_cnt is 0 in
\* every state, every request submitted has had its callback invoked once
\* inside submit_request, flush_request and handle_complete return Ok
\* (handle_complete false) with no callback and change nothing, and the
\* first load of drain_request finds 0.
C27_OffIsSynchronous ==
    [][ engine = "Off" =>
          /\ pc' = "idle"
          /\ aio_in_queue' = <<>> /\ aio_in_flight' = <<>>
          /\ incomplete_cnt' = 0
          /\ kernel' = {}
          /\ \A id \in Ids :
                id < next_id' => (path'[id] = "sync" /\ cb_cnt'[id] = 1)
          /\ ret'.op \in {"flush_request", "handle_complete"} =>
                /\ ret'.ok /\ ~ret'.done
                /\ UNCHANGED << aio_in_queue, aio_in_flight, incomplete_cnt,
                                heap, kernel, cb_cnt, path, next_id >>
          /\ drain'.seen \in {-1, 0}
          /\ drain'.at = "loop" => drain'.seen = -1
      ]_vars

\* With engine Off two requests were served, flush_request was called, the
\* ready handler ran handle_complete, and drain_request has returned.
C27_Witness ==
    /\ engine = "Off"
    /\ next_id > 2
    /\ drain.at = "returned"
    /\ notify.kind = "ready" /\ reap_res.called /\ ~reap_res.done
    /\ ret.op = "flush_request"

\* ========================================================================
\* Teardown: the driver submits its requests and calls flush_request once
\* no submission is left; the ready handler runs when the completion
\* eventfd is readable and finds at least one event; the broken flag is
\* never set; drain_request spins on another thread.  The backend may
\* accept a batch in part, not at all, or fail, and a callback may fail.
InitDrain == InitHandler

\* flush_request, not called again before something else has happened.
flush_after_submit ==
    /\ ret.op # "flush_request"
    /\ driver_flush_request

\* The event loop finds the eventfd readable and runs the ready handler.
ready_handler_wake ==
    /\ kernel # {}
    /\ ready_handler

\* The reap of the woken handler: the backend has an event for it.
aio_complete_handler_wake ==
    /\ aio_complete_handler
    /\ evts' # <<>>

\* The steps of the I/O thread.
IoThread ==
    \/ driver_submit_async
    \/ driver_submit_sync
    \/ flush_after_submit
    \/ ready_handler_wake
    \/ aio_complete_handler_wake
    \/ notifier_return
    \/ ReapEvent
    \/ UnlinkEvent
    \/ Refill
    \/ process_list
    \/ FillBatch
    \/ SubmitBatch
    \/ PushBack
    \/ AfterSubmit
    \/ FailOne

\* The steps of the thread that drains.
DrainThread ==
    \/ drain_request
    \/ drain_load

NextDrain == IoThread \/ DrainThread

\* Both threads keep running: every submission is made, every handler runs
\* to its end, flush_request follows the last submission, every wake is
\* served, and the loop of drain_request keeps loading.
SpecDrain ==
    InitDrain /\ [][NextDrain]_vars /\ WF_vars(IoThread) /\ WF_vars(DrainThread)

\* No completion callback returns an error.
CallbacksSucceed == [](last_cb.ok)
\* Every Cb that is offered to the backend is accepted by it, then or later.
OfferedIsAccepted ==
    \A id \in 1..HandlerSubmits :
        [](((pc = "submit") /\ (id \in Range(iocbs))) => <>(id \in kernel))

MaxIovs == 3
MaxIovLen == 3
\* Buffers at two places of memory, far enough apart not to touch.
SplitBases == {0, 10}
\* An iovec may be empty.
SplitIovs == { Iovec(b, l) : b \in SplitBases, l \in 0..MaxIovLen }
SplitLists == UNION { [1..n -> SplitIovs] : n \in 0..MaxIovs }
\* From 0 to one more than the longest list holds.
SplitSizes == 0..(MaxIovs * MaxIovLen + 1)

InitSplit ==
    /\ EngineInit
    /\ NoSync
    /\ NoCombine
    /\ broken = FALSE
    /\ NoHandler
    /\ \E v \in SplitLists, s \in SplitSizes :
          split = [called |-> FALSE, iovecs |-> v, size |-> s]

\* Variant that also cuts a buffer that ends at the split point.
RECURSIVE iovecs_split_loop_cuts_at_end(_, _, _, _)
iovecs_split_loop_cuts_at_end(iovecs, size, begin, end) ==
    IF iovecs = <<>> THEN [begin |-> begin, end |-> end]
    ELSE LET iov == Head(iovecs) IN
         IF size = 0
         THEN iovecs_split_loop_cuts_at_end(Tail(iovecs), size, begin,
                                            Append(end, iov))
         ELSE IF iov.iov_len >= size
         THEN iovecs_split_loop_cuts_at_end(
                  Tail(iovecs), 0,
                  Append(begin, Iovec(iov.iov_base, size)),
                  Append(end, Iovec(iov.iov_base + size, iov.iov_len - size)))
         ELSE iovecs_split_loop_cuts_at_end(Tail(iovecs), size - iov.iov_len,
                                            Append(begin, iov), end)

\* The for loop of iovecs_split over the iovecs left, with size, begin and
\* end as they stand.
RECURSIVE iovecs_split_loop(_, _, _, _)
iovecs_split_loop(iovecs, size, begin, end) ==
    IF iovecs = <<>> THEN [begin |-> begin, end |-> end]
    ELSE LET iov == Head(iovecs) IN
         IF size = 0
         THEN iovecs_split_loop(Tail(iovecs), size, begin, Append(end, iov))
         ELSE IF iov.iov_len > size
         THEN iovecs_split_loop(
                  Tail(iovecs), 0,
                  Append(begin, Iovec(iov.iov_base, size)),
                  Append(end, Iovec(iov.iov_base + size, iov.iov_len - size)))
         ELSE iovecs_split_loop(Tail(iovecs), size - iov.iov_len,
                                Append(begin, iov), end)

iovecs_split(iovecs, size) == iovecs_split_loop(iovecs, size, <<>>, <<>>)

\* The call.
Split ==
    /\ ~split.called
    /\ LET r == iovecs_split(split.iovecs, split.size) IN
       split' = [split EXCEPT !.called = TRUE] @@ r
    /\ UNCHANGED << engine_and_sync, combvars, handlervars >>

NextSplit == Split

SpecSplit == InitSplit /\ [][NextSplit]_vars

\* The addresses a list of iovecs describes, in order.
RECURSIVE IovAddrs(_)
IovAddrs(iovecs) ==
    IF iovecs = <<>> THEN <<>>
    ELSE [k \in 1..Head(iovecs).iov_len |-> Head(iovecs).iov_base + k - 1]
         \o IovAddrs(Tail(iovecs))

\* begin and end are the list v cut in two between two of its iovecs, or
\* inside one of them.
CutOf(v, begin, end) ==
    \/ \E k \in 0..Len(v) :
          /\ begin = SubSeq(v, 1, k)
          /\ end = SubSeq(v, k + 1, Len(v))
    \/ \E k \in 1..Len(v) : \E s \in 1..(v[k].iov_len - 1) :
          /\ begin = Append(SubSeq(v, 1, k - 1), Iovec(v[k].iov_base, s))
          /\ end = << Iovec(v[k].iov_base + s, v[k].iov_len - s) >>
                   \o SubSeq(v, k + 1, Len(v))

\* The iovecs of length 0 in a list.
Empties(iovecs) == { i \in 1..Len(iovecs) : iovecs[i].iov_len = 0 }

\* C28 as stated: iovecs_split(iovecs, size) returns (begin, end) such that
\* begin followed by end describes the addresses of iovecs in their order,
\* begin holds min(size, total length) bytes, at most one iovec is cut in
\* two, at the split point, and no iovec of begin or end has length 0.
C28_NoEmptyOutput ==
    split.called =>
        /\ IovAddrs(split.begin \o split.end) = IovAddrs(split.iovecs)
        /\ get_iov_size(split.begin)
              = Min(split.size, get_iov_size(split.iovecs))
        /\ CutOf(split.iovecs, split.begin, split.end)
        /\ Empties(split.begin) = {}
        /\ Empties(split.end) = {}

\* C28: iovecs_split(iovecs, size) returns (begin, end) such that begin
\* followed by end describes the addresses of iovecs in their order, begin
\* holds min(size, total length) bytes, all iovecs but at most one are
\* handed on as they are, the one is cut at the split point in two pieces
\* of positive length, and begin and end together hold as many iovecs of
\* length 0 as iovecs does.
C28_SplitIsACut ==
    split.called =>
        /\ IovAddrs(split.begin \o split.end) = IovAddrs(split.iovecs)
        /\ get_iov_size(split.begin)
              = Min(split.size, get_iov_size(split.iovecs))
        /\ CutOf(split.iovecs, split.begin, split.end)
        /\ Cardinality(Empties(split.begin)) + Cardinality(Empties(split.end))
              = Cardinality(Empties(split.iovecs))

\* Three iovecs were split inside the second one.
C28_Witness ==
    /\ split.called
    /\ Len(split.iovecs) = 3
    /\ Len(split.begin) = 2 /\ Len(split.end) = 2
    /\ split.begin[2].iov_len + split.end[1].iov_len = split.iovecs[2].iov_len
    /\ split.iovecs[3].iov_len = 0

\* ========================================================================
\* Claims about the synchronous branches (SpecSync), continued.

\* C29: discard_enabled gates the service of Discard: whenever discard_sync
\* has served a Discard Cb with raw_discard, the discard property of that Cb
\* is true.
C29_DiscardIsGated ==
    (req.branch = "discard_sync" /\ ret.op = "submit_request")
        => aiocb.discard

BounceWriteOps == {"alloc", "head", "tail", "write"}

\* C31: the misalignment check runs before the zero-write promotion: a
\* direct write that is misaligned takes the bounce path as a write, also
\* when all its bytes are zero and write_zeroes is not Off; it is never
\* dispatched as WriteZeroes or WriteZeroesUnmap, its raw operations are
\* the loads and writes of the bounce path, and at the return of
\* submit_request its callback has run once with 0 or -1, with 0 only after
\* a raw write if the request holds bytes.
C31_MisalignedWriteNotPromoted ==
    ( /\ req # NoReq
      /\ aiocb.opcode = "Pwritev"
      /\ request_misaligned(Loaded(aiocb, mem)) ) =>
        /\ req.branch = "bounce"
        /\ req.op = "Pwritev"
        /\ \A i \in 1..Len(raw_log) : raw_log[i].what \in BounceWriteOps
        /\ (pc = "idle" /\ ret.op = "submit_request") =>
              /\ cb_cnt[ret.id] = 1
              /\ last_cb.id = ret.id
              /\ last_cb.res \in {0, -1}
              /\ (last_cb.res = 0 /\ aiocb.nbytes > 0) =>
                    \E i \in 1..Len(raw_log) : raw_log[i].what = "write"

\* A direct write of one all-zero 64-bit word from a misaligned buffer,
\* with write_zeroes Unmap and discard enabled, was written through the
\* bounce buffer: the zeroes are in the file.
C31_Witness ==
    /\ pc = "idle" /\ ret.op = "submit_request"
    /\ aiocb.opcode = "Pwritev"
    /\ aiocb.direct
    /\ aiocb.write_zeroes = "Unmap" /\ aiocb.discard
    /\ aiocb.nbytes = 8
    /\ AllZeroWords(aiocb.iovec, mem)
    /\ request_misaligned(Loaded(aiocb, mem))
    /\ req.branch = "bounce"
    /\ last_cb.res = 0
    /\ \A k \in 1..8 : file[aiocb.offset + k] = 0

\* ========================================================================
\* Claims about the queue and the backend (Spec), continued.

\* A step of submit_request that queues a Cb.
QueuesACb == pc = "idle" /\ next_id' = next_id + 1 /\ req'.branch \in {"rw_async", "flush_async"}

\* What rw_async does with a Cb and when the backend submit is called in
\* the same submit_request: the Cb goes to the head of the queue and the
\* counter up by one; process_list is entered exactly when queue and
\* in-flight list hold max_events Cbs or more after the insertion, its
\* first look at the lists starts a batch exactly when fewer than
\* max_events Cbs are in flight, a batch started is offered to the backend,
\* and the backend is offered nothing in any other way.
QueueThenSubmit ==
    /\ QueuesACb =>
          /\ aio_in_queue' = << next_id >> \o aio_in_queue
          /\ incomplete_cnt' = incomplete_cnt + 1
          /\ aio_in_flight' = aio_in_flight /\ kernel' = kernel
          /\ ~offered'
          /\ IF Len(aio_in_queue') + Len(aio_in_flight') >= max_events
             THEN pc' = "process_list" /\ caller' = "submit_request"
             ELSE pc' = "idle" /\ ret'.ok
    /\ (pc = "process_list" /\ caller = "submit_request" /\ ~offered) =>
          /\ aio_in_queue # <<>>
          /\ IF Len(aio_in_flight) < max_events
             THEN pc' = "fill"
             ELSE pc' = "idle" /\ ret'.ok /\ ~offered'
    /\ pc = "fill" => pc' \in {"fill", "submit"}
    /\ pc = "submit" => offered'
    /\ (offered' /\ ~offered) => pc = "submit"
    /\ kernel' # kernel => (pc = "submit" \/ (pc = "idle" /\ pc' = "reap"))

\* C32 as stated: ... and a Cb that its own submit_request left in pending
\* is offered to the backend only when flush_request or handle_complete
\* runs: a batch offered during a submit_request holds no Cb of an earlier
\* call.
C32_WaitsForFlushOrReap ==
    [][ /\ QueueThenSubmit
        /\ (pc = "submit" /\ caller = "submit_request") =>
              Range(iocbs) \subseteq {next_id - 1}
      ]_vars

\* C32: an async Cb is inserted at the head of pending and incomplete_cnt
\* goes up by one; the backend submit is called during that submit_request
\* if and only if |pending| + |inflight| >= max_events after the insertion
\* and |inflight| < max_events; otherwise the Cb stays in pending, unseen
\* by the backend, until process_list runs again: in a later submit_request
\* that reaches the threshold, in flush_request or in handle_complete.  No
\* Cb in pending is known to the backend.
C32_QueuedUntilProcessList ==
    [][ /\ QueueThenSubmit
        /\ Range(aio_in_queue) \cap kernel = {}
        /\ pc = "submit" => caller \in {"submit_request", "flush_request",
                                        "handle_complete"}
      ]_vars

\* A submit_request reached the threshold and offers the backend a batch
\* that holds the Cb of an earlier call, which had stayed in pending.
C32_Witness ==
    /\ pc = "submit"
    /\ caller = "submit_request"
    /\ Len(iocbs) >= 2
    /\ iocbs[1] < next_id - 1
    /\ aio_in_flight # <<>>

\* C33: after the events of a reap, handle_complete calls process_list;
\* and when handle_complete returns success, the queue is empty, or
\* max_events Cbs are in flight, or the return follows a backend submit of
\* that call which accepted no Cb without an error.
C33_RefillAfterReap ==
    [][ /\ (pc = "reap" /\ evts = <<>>) =>
              (pc' = "process_list" /\ caller' = "handle_complete")
        /\ (pc' = "idle" /\ ret'.op = "handle_complete" /\ ret'.ok) =>
              \/ aio_in_queue' = <<>>
              \/ Len(aio_in_flight') = max_events
              \/ /\ pc = "push_back" /\ caller = "handle_complete"
                 /\ offered /\ ~is_err /\ nr = 0
        /\ (pc' = "idle" /\ ret'.op = "handle_complete" /\ ret'.ok
              /\ ctx_is_some) =>
              (caller = "handle_complete" /\ pc \in {"process_list", "push_back"})
      ]_vars

\* handle_complete has reaped an event, refilled the backend with a Cb
\* from the queue and returned success with the queue empty.
C33_Witness ==
    /\ pc = "idle"
    /\ ret.op = "handle_complete" /\ ret.ok
    /\ evt # NoEvt
    /\ offered
    /\ aio_in_queue = <<>>
    /\ aio_in_flight # <<>>

\* ========================================================================
\* process_list under every behaviour of the backend: a few asynchronous
\* Cbs, flushes and reaps on an engine with a ctx, each handler running to
\* its end once it is called.

\* Number of submit_request calls in these runs.
ListSubmits == 3

InitList == InitLive

\* submit_request of the next asynchronous Cb.
list_rw_async ==
    /\ next_id <= ListSubmits
    /\ rw_async

\* The steps of a handler that has been called.
HandlerStep ==
    \/ ReapEvent
    \/ UnlinkEvent
    \/ Refill
    \/ process_list
    \/ FillBatch
    \/ SubmitBatch
    \/ PushBack
    \/ AfterSubmit
    \/ FailOne

NextList ==
    \/ list_rw_async
    \/ flush_request
    \/ handle_complete
    \/ HandlerStep

SpecList == InitList /\ [][NextList]_vars /\ WF_vars(HandlerStep)

\* process_list is running.
InProcessList == pc \in {"process_list", "fill", "submit", "push_back", "fail_cb"}

\* C34: every call of process_list terminates, whatever the backend does
\* with the batches, and each iteration of its loop either leaves at least
\* one Cb with the backend and in flight, where it stays while process_list
\* runs, or fails exactly one Cb of the queue, or leaves the loop.
C34_ProcessListTerminates ==
    /\ [][ /\ (pc = "push_back" /\ index >= Len(iocbs) /\ ~is_err /\ nr > 0) =>
                 /\ pc' = "process_list"
                 /\ \A i \in 1..nr :
                       iocbs[i] \in kernel /\ iocbs[i] \in Range(aio_in_flight)
                 /\ \A id \in Range(aio_in_queue) : id \notin Range(iocbs)
                        \/ \E i \in (nr + 1)..Len(iocbs) : iocbs[i] = id
           /\ (pc = "push_back" /\ index >= Len(iocbs) /\ is_err) =>
                 /\ pc' = "fail_cb"
                 /\ Len(aio_in_queue') = Len(aio_in_queue) - 1
                 /\ cb_cnt' = cb_cnt
           /\ pc = "fail_cb" =>
                 /\ cb_cnt' = [cb_cnt EXCEPT ![node] = @ + 1]
                 /\ aio_in_queue' = aio_in_queue
                 /\ pc' \in {"process_list", "idle"}
           /\ (pc = "push_back" /\ index >= Len(iocbs) /\ ~is_err /\ nr = 0) =>
                 pc' = "idle"
           /\ InProcessList =>
                 \A id \in kernel : id \in Range(aio_in_flight) =>
                     id \in Range(aio_in_flight')
         ]_vars
    /\ (InProcessList ~> pc = "idle")

\* process_list has been through an error of the backend, a batch taken in
\* part and a batch of which nothing was taken, and has returned.
C34_Witness ==
    /\ pc = "idle"
    /\ ret.op = "flush_request"
    /\ offered
    /\ \E id \in Ids : cb_cnt[id] = 1 /\ last_cb.id = id /\ last_cb.res = -1
    /\ kernel # {}
    /\ aio_in_queue # <<>>
    /\ Len(aio_in_flight) < max_events

\* ========================================================================
\* Claims about the queue and the backend (Spec), continued.

\* Every Cb of the set S was submitted after the Cb id.
AllNewer(S, id) == \A q \in S : q > id

\* C35: Cbs are accepted by the backend in the order of their submission,
\* across batches: when the backend accepts Cbs of a batch, every Cb left
\* in the queue or in the rest of the batch was submitted later than each
\* of them; between handlers every Cb in the queue was submitted later
\* than every Cb in flight and the queue runs from the newest Cb at its
\* head to the oldest at its tail; and the Cb failed after a submit error
\* is older than every Cb left in the queue.
C35_AcceptedInSubmissionOrder ==
    [][ /\ \A id \in kernel' \ kernel :
              /\ pc = "submit"
              /\ AllNewer(Range(aio_in_queue'), id)
              /\ AllNewer({ iocbs[i] : i \in (nr' + 1)..Len(iocbs) }, id)
        /\ pc' = "fail_cb" => AllNewer(Range(aio_in_queue'), node')
        /\ pc' \in {"idle", "process_list"} =>
              /\ \A f \in Range(aio_in_flight') :
                     AllNewer(Range(aio_in_queue'), f)
              /\ \A i, j \in 1..Len(aio_in_queue') :
                     i < j => aio_in_queue'[i] > aio_in_queue'[j]
      ]_vars

\* The backend accepts the oldest Cb of a batch whose other Cbs return to
\* the queue, after an earlier batch it had refused with an error, which
\* failed a Cb older than all of them.
C35_Witness ==
    /\ pc = "push_back"
    /\ ~is_err
    /\ nr = 1
    /\ Len(iocbs) = 2
    /\ iocbs[1] \in kernel
    /\ iocbs[1] \in pushed \/ iocbs[2] \in pushed
    /\ \E id \in Ids : id < iocbs[1] /\ cb_cnt[id] = 1 /\ path[id] = "async"
                         /\ id \notin Range(aio_in_flight) /\ id \notin kernel

\* ========================================================================
\* Claims about the notifier callbacks and drain_request (SpecHandler),
\* continued.

\* C36: whenever drain_request on another thread loads incomplete_cnt = 0,
\* the completion callback of every asynchronous Cb submitted until then
\* has been invoked.
C36_ZeroMeansAllCalledBack ==
    [][ (drain.at = "loop" /\ drain'.at = "returned") =>
            \A id \in Queued : cb_cnt[id] = 1 ]_vars

\* ========================================================================
\* Claims about the queue and the backend (Spec), continued.

\* C37: every event drained by a reap leads to one callback, the removal of
\* its Cb from the in-flight list and one decrement of incomplete_cnt, also
\* after the callback of an earlier event of the reap returned an error:
\* when handle_complete returns, every Cb in flight is one whose event the
\* backend still holds, and the counter is the number of Cbs in the queue
\* and with the backend.
C37_EveryReapedEventHandled ==
    (pc = "idle" /\ ret.op = "handle_complete") =>
        /\ \A id \in Range(aio_in_flight) : id \in kernel /\ cb_cnt[id] = 0
        /\ incomplete_cnt = Len(aio_in_queue) + Cardinality(kernel)

\* C38: between engine operations the queue and the in-flight list are
\* disjoint and the in-flight list holds exactly the Cbs that the backend
\* accepted and whose completion event has not been reaped; and every
\* event handled by the reap loop refers to a Cb in the in-flight list.
C38_InflightIsWithBackend ==
    /\ pc = "idle" =>
          /\ Range(aio_in_queue) \cap Range(aio_in_flight) = {}
          /\ Range(aio_in_flight) = kernel
    /\ pc = "unlink" => node \in Range(aio_in_flight)

\* ========================================================================
\* Claims about the synchronous branches (SpecSync), continued.

\* C39: a WriteZeroesUnmap request calls raw_discard first; if that returns
\* 0 the callback gets 0 and raw_write_zeroes is not called; otherwise
\* raw_write_zeroes is called on the same range and the callback gets its
\* result.  A WriteZeroes request calls raw_write_zeroes only.  The
\* callback is invoked once in each case.
C39_UnmapFallsBackToWriteZeroes ==
    (req.branch = "write_zeroes_sync" /\ ret.op = "submit_request") =>
        /\ cb_cnt[ret.id] = 1
        /\ last_cb.id = ret.id
        /\ \A i \in 1..Len(raw_log) :
              /\ raw_log[i].off = aiocb.offset
              /\ raw_log[i].len = aiocb.nbytes
        /\ req.op = "WriteZeroes" =>
              /\ Len(raw_log) = 1
              /\ raw_log[1].what = "write_zeroes"
              /\ last_cb.res = raw_log[1].ret
        /\ req.op = "WriteZeroesUnmap" =>
              /\ raw_log[1].what = "discard"
              /\ IF raw_log[1].ret = 0
                 THEN Len(raw_log) = 1 /\ last_cb.res = 0
                 ELSE /\ Len(raw_log) = 2
                      /\ raw_log[2].what = "write_zeroes"
                      /\ last_cb.res = raw_log[2].ret

\* A write of zeroes promoted to WriteZeroesUnmap whose discard failed was
\* served by raw_write_zeroes: the callback got 0 and the range is zero.
C39_Witness ==
    /\ req.branch = "write_zeroes_sync" /\ ret.op = "submit_request"
    /\ req.opcode = "Pwritev" /\ req.op = "WriteZeroesUnmap"
    /\ Len(raw_log) = 2
    /\ raw_log[1].ret = -1
    /\ last_cb.res = 0
    /\ file # FileInit

\* The raw reads and writes of the bounce path.
BounceRaw == {"head", "tail", "read", "write"}

\* Where in the bounce buffer a raw operation reads to or writes from: the
\* tail load at the last cell of the window, the others at the start.
BufPos(op) == IF op.what = "tail" THEN op.off - win_offset ELSE 0

\* C40: every raw read and raw write of the bounce path (head load, tail
\* load, window read, window write) has a file offset and a length that
\* are multiples of req_align, lies inside
\* [round_down(offset), round_up(offset + nbytes)), and reads into or
\* writes from a part of the bounce buffer, whose length is
\* min(round_down(nbytes + 2 * req_align, req_align), MAX_LEN_BOUNCE_BUFF).
C40_BounceOpsAligned ==
    [][ \A i \in (Len(raw_log) + 1)..Len(raw_log') :
           LET op == raw_log'[i] IN
           op.what \in BounceRaw =>
              /\ op.off % aiocb.req_align = 0
              /\ op.len % aiocb.req_align = 0
              /\ op.off >= round_down(aiocb.offset, aiocb.req_align)
              /\ op.off + op.len
                    <= round_up(aiocb.offset + aiocb.nbytes, aiocb.req_align)
              /\ Len(bounce_buffer) =
                    Min(round_down(aiocb.nbytes + 2 * aiocb.req_align,
                                   aiocb.req_align),
                        MAX_LEN_BOUNCE_BUFF)
              /\ BufPos(op) >= 0
              /\ BufPos(op) + op.len <= Len(bounce_buffer)
      ]_vars

\* A write of 12 bytes at an odd offset, whose expanded range is longer
\* than the bounce buffer, has loaded its head, written a first window as
\* long as the buffer, loaded its tail and written a second window.
C40_Witness ==
    /\ pc = "idle"
    /\ aiocb.opcode = "Pwritev"
    /\ aiocb.nbytes = 12
    /\ aiocb.offset % aiocb.req_align # 0
    /\ Len(raw_log) = 4
    /\ raw_log[1].what = "head"
    /\ raw_log[2].what = "write" /\ raw_log[2].len = MAX_LEN_BOUNCE_BUFF
    /\ raw_log[3].what = "tail"
    /\ raw_log[4].what = "write" /\ raw_log[4].off = raw_log[2].off + raw_log[2].len

====
